---- MODULE Spec2Model ----
(***************************************************************************)
(* A model of the gluon bioreactor control code: the job scheduler of      *)
(* Bioreactor.run (src/src/bioreactor.py), the temperature PID controller  *)
(* and the balanced-flow coordinator (src/src/utils.py), the pump and      *)
(* optical-density routines they call (src/src/io.py), the other read and  *)
(* write functions of io.py, the sensor-recording cycle with the CSV       *)
(* header it writes under (utils.py, bioreactor.py), the ring-light cycle  *)
(* (utils.py) and the reactor's life from run() to finish().               *)
(*                                                                         *)
(* Time is a discrete clock `now`.  Statements of the code other than      *)
(* time.sleep and a job's action take no time: the clock advances only     *)
(* when every live thread is blocked in a sleep or inside its action.      *)
(***************************************************************************)
EXTENDS Integers, Sequences, FiniteSets, TLC

VARIABLES
    now,          \* time.time(), in seconds
    stop_event,   \* Bioreactor._stop_event (threading.Event): set or clear
    lanes,        \* the threads started by run(), one record per thread_worker
    stop_calls,   \* number of stop_all() calls so far
    first_stop,   \* value of now at the first stop_all() after run(), -1 if none
    initialized,  \* Bioreactor._initialized: component name -> bool
    temp_integral,         \* bioreactor._temp_integral
    temp_last_error,       \* bioreactor._temp_last_error
    temp_last_time,        \* bioreactor._temp_last_time: <<>> is None, <<t>> a time
    temp_last_derivative,  \* bioreactor._temp_last_derivative
    peltier,      \* PeltierDriver._last_duty and _last_forward
    pid_cfg,      \* the setpoint, gains and max_duty the PID job is bound to
    pid_calls,    \* number of temperature_pid_controller calls so far
    pid_call,     \* the arguments and local values of the latest call
    pid_log,      \* the actuator calls the latest call made, in order
    pumps,        \* bioreactor.pumps: pump name -> state of its Tic controller
    pump_configs, \* bioreactor.pump_configs: pump name -> direction, steps_per_ml
    pump_calls,   \* number of change_pump / balanced_flow calls so far
    pump_call,    \* the latest change_pump or balanced_flow call
    pump_log,     \* the change_pump calls and Tic commands of the latest call
    ring_light,   \* RingLightDriver._current_color and _is_on
    led,          \* LEDDriver._power
    od_call,      \* the latest measure_od call: arguments, locals, position
    stirrer,      \* StirrerDriver._duty
    io_call,      \* the latest call of one of the io.py read / write functions
    init_components, \* bioreactor._init_components: what the config enables
    fieldnames,   \* bioreactor.fieldnames: the header of the CSV writer
    cycle,        \* the latest measure_and_record_sensors call
    converse,     \* balanced_flow's pump_name and converse_name, as resolved
    ring_cycle,   \* bioreactor._ring_light_state, _ring_light_last_switch_time
    out_file      \* bioreactor.out_file: the CSV data file, open or closed

sched_vars == <<now, stop_event, lanes, stop_calls, first_stop>>

pid_vars == <<temp_integral, temp_last_error, temp_last_time,
              temp_last_derivative, peltier, pid_cfg, pid_calls, pid_call,
              pid_log>>

pump_vars == <<pumps, pump_configs, pump_calls, pump_call, pump_log>>

od_vars == <<ring_light, led, od_call>>

ctl_vars == <<converse, ring_cycle, out_file>>

rec_vars == <<stirrer, io_call, init_components, fieldnames, cycle, ctl_vars>>

io_vars == <<initialized, pid_vars, pump_vars, od_vars, rec_vars>>

vars == <<sched_vars, io_vars>>

(***************************************************************************)
(* Bounds of the scheduler model.                                          *)
(***************************************************************************)
MaxTime == 8     \* the clock stops advancing here
MaxFreq == 2     \* the longest job period
MaxCost == 3     \* the longest time one action invocation takes
MaxDur == 6      \* the longest finite job duration
MaxStops == 2    \* stop_all() is called at most this often

Max(a, b) == IF a >= b THEN a ELSE b
Min(a, b) == IF a <= b THEN a ELSE b

\* ceil(a / b) for a >= 0, b > 0
CeilDiv(a, b) == (a + b - 1) \div b

(***************************************************************************)
(* Python floats.  A float is NaN or an exact fraction n/d with d > 0 in   *)
(* lowest terms; the model's inputs are chosen so that the fractions that  *)
(* arise are exactly representable.  Arithmetic with a NaN operand gives   *)
(* NaN and every comparison with NaN is false, as in IEEE 754.             *)
(***************************************************************************)
Abs(x) == IF x < 0 THEN -x ELSE x

RECURSIVE GCD(_, _)
GCD(a, b) == IF b = 0 THEN a ELSE GCD(b, a % b)

NaN == [nan |-> TRUE, n |-> 0, d |-> 1]

F(n, d) ==
    LET g == GCD(Abs(n), Abs(d))
        sg == IF d < 0 THEN -1 ELSE 1
    IN [nan |-> FALSE, n |-> (sg * n) \div g, d |-> (sg * d) \div g]

Flt(i) == F(i, 1)
Zero == Flt(0)

IsNaN(x) == x.nan
FAdd(x, y) == IF x.nan \/ y.nan THEN NaN ELSE F(x.n * y.d + y.n * x.d, x.d * y.d)
FSub(x, y) == IF x.nan \/ y.nan THEN NaN ELSE F(x.n * y.d - y.n * x.d, x.d * y.d)
FMul(x, y) == IF x.nan \/ y.nan THEN NaN ELSE F(x.n * y.n, x.d * y.d)
\* x / y for y # 0
FDiv(x, y) == IF x.nan \/ y.nan THEN NaN ELSE F(x.n * y.d, x.d * y.n)
FLt(x, y) == ~x.nan /\ ~y.nan /\ x.n * y.d < y.n * x.d
FLe(x, y) == ~x.nan /\ ~y.nan /\ x.n * y.d <= y.n * x.d
FAbs(x) == IF x.nan THEN NaN ELSE F(Abs(x.n), x.d)
\* Python's max(a, b) is b if b > a else a, and min(a, b) is b if b < a else a
FMax(x, y) == IF FLt(x, y) THEN y ELSE x
FMin(x, y) == IF FLt(y, x) THEN y ELSE x

(***************************************************************************)
(* Jobs: the (function, frequency, duration) tuples passed to run().       *)
(*   throws  : the function raises an exception on every invocation        *)
(*   cost    : the time one invocation of the function takes               *)
(*   cont    : frequency is True (continuous); else the period is freq     *)
(*   forever : duration is True (indefinite); else the duration is dur     *)
(***************************************************************************)
Periods == {1, MaxFreq}
Costs == {0, MaxCost}
Durations == {MaxDur \div 2, MaxDur}

Jobs ==
    { j \in [throws : BOOLEAN, cost : Costs, cont : BOOLEAN, freq : Periods,
             forever : BOOLEAN, dur : Durations] :
        /\ (j.cont => (j.freq = 1 /\ j.cost > 0))
        /\ (j.forever => j.dur = MaxDur) }

\* run() starts one thread per job and the threads do not depend on their
\* order in the list: of the two orders of a pair of jobs one is kept
JobRank(j) ==
    (IF j.throws THEN 1 ELSE 0) + 2 * (IF j.cont THEN 1 ELSE 0)
    + 4 * (IF j.forever THEN 1 ELSE 0) + 8 * j.cost
    + 8 * (MaxCost + 1) * (j.freq + (MaxFreq + 1) * j.dur)

JobLists ==
    { <<j>> : j \in Jobs }
    \cup { jk \in Jobs \X Jobs : JobRank(jk[1]) <= JobRank(jk[2]) }

\* the thread created by run() for one job (bioreactor.py:287-291)
NewLane(j) ==
    [throws |-> j.throws, cost |-> j.cost, cont |-> j.cont, freq |-> j.freq,
     forever |-> j.forever, dur |-> j.dur,
     pc |-> "check", start |-> now, t0 |-> now, until |-> now,
     invs |-> <<>>, rets |-> <<>>, raised |-> 0, ended |-> -1]

LaneIds == DOMAIN lanes

(***************************************************************************)
(* thread_worker (bioreactor.py:268-285), one operator per statement.      *)
(***************************************************************************)
\* line 270, with <= for <
LoopConditionOffByOne(l) ==
    /\ ~stop_event
    /\ (l.forever \/ now - l.start <= l.dur)

\* line 270: while not self._stop_event.is_set() and (dur is True or time.time() - start < dur)
LoopCondition(l) ==
    /\ ~stop_event
    /\ (l.forever \/ now - l.start < l.dur)

\* an exception that escapes thread_worker ends the thread
ExceptionEscapes(l) ==
    [l EXCEPT !.pc = "done", !.ended = now]

\* lines 282-285 with the sleep taken for the whole period every time
AfterCallSleepsPeriod(l) ==
    IF l.cont
    THEN [l EXCEPT !.pc = "check"]
    ELSE [l EXCEPT !.pc = "sleeping", !.until = now + l.freq]

\* lines 282-285: loop_elapsed, sleep_time = max(0, freq - loop_elapsed), sleep
AfterCall(l) ==
    IF l.cont
    THEN [l EXCEPT !.pc = "check"]
    ELSE LET loop_elapsed == now - l.t0
             sleep_time == Max(0, l.freq - loop_elapsed)
         IN IF sleep_time > 0
            THEN [l EXCEPT !.pc = "sleeping", !.until = now + sleep_time]
            ELSE [l EXCEPT !.pc = "check"]

\* lines 276-277: except Exception: log the error, then go on with the loop
OnException(l) ==
    AfterCall([l EXCEPT !.raised = @ + 1])

\* line 285 returns (if the thread slept) and line 270 is evaluated: enter the
\* loop body (t0 = time.time()) or leave the loop
LaneCheck(i) ==
    /\ \/ lanes[i].pc = "check"
       \/ lanes[i].pc = "sleeping" /\ lanes[i].until <= now
    /\ lanes' = [lanes EXCEPT ![i] =
                    IF LoopCondition(@)
                    THEN [@ EXCEPT !.pc = "call", !.t0 = now]
                    ELSE [@ EXCEPT !.pc = "done", !.ended = now]]
    /\ UNCHANGED <<now, stop_event, stop_calls, first_stop, io_vars>>

\* the function returns or raises: lines 276-285
Returned(l) ==
    IF l.throws
    THEN OnException([l EXCEPT !.rets = Append(@, now - l.start)])
    ELSE AfterCall([l EXCEPT !.rets = Append(@, now - l.start)])

\* lines 274-275: global_elapsed = time.time() - start; func(self, elapsed=global_elapsed).
\* A function that takes no time has returned (or raised) in the same step.
LaneCall(i) ==
    /\ lanes[i].pc = "call"
    /\ LET called == [lanes[i] EXCEPT !.pc = "running",
                                      !.until = now + lanes[i].cost,
                                      !.invs = Append(@, now - lanes[i].start)]
       IN lanes' = [lanes EXCEPT ![i] =
                       IF called.cost = 0 THEN Returned(called) ELSE called]
    /\ UNCHANGED <<now, stop_event, stop_calls, first_stop, io_vars>>

\* a function that takes time returns or raises
LaneReturn(i) ==
    /\ lanes[i].pc = "running"
    /\ lanes[i].until <= now
    /\ lanes' = [lanes EXCEPT ![i] = Returned(@)]
    /\ UNCHANGED <<now, stop_event, stop_calls, first_stop, io_vars>>

\* Bioreactor.run (bioreactor.py:251-293): the stop event is cleared and one
\* thread is started per job; the threads of an earlier run() are dropped
\* from self._threads (line 267) but go on running
Run(jobs) ==
    /\ stop_event' = FALSE
    /\ lanes' = lanes \o [i \in 1..Len(jobs) |-> NewLane(jobs[i])]
    /\ first_stop' = -1
    /\ UNCHANGED <<now, stop_calls, io_vars>>

\* stop_all that flips the event instead of setting it
StopEventToggled == ~stop_event

\* line 297: self._stop_event.set()
StopEventSet == TRUE

\* Bioreactor.stop_all (bioreactor.py:295-298)
StopAll ==
    /\ lanes # <<>>
    /\ stop_calls < MaxStops
    /\ stop_event' = StopEventSet
    /\ stop_calls' = stop_calls + 1
    /\ first_stop' = IF first_stop = -1 THEN now ELSE first_stop
    /\ UNCHANGED <<now, lanes, io_vars>>

\* a lane that the clock must wait for at the current instant
Urgent(l) ==
    \/ l.pc \in {"check", "call"}
    \/ l.pc \in {"running", "sleeping"} /\ l.until <= now

\* one second passes while every live thread is asleep or inside its action
Tick ==
    /\ now < MaxTime
    /\ \E i \in LaneIds : lanes[i].pc # "done"
    /\ \A i \in LaneIds : ~Urgent(lanes[i])
    /\ now' = now + 1
    /\ UNCHANGED <<stop_event, lanes, stop_calls, first_stop, io_vars>>


(***************************************************************************)
(* Components and their drivers (src/src/io.py).                           *)
(***************************************************************************)
Components ==
    {"temp_sensor", "peltier_driver", "stirrer", "led", "ring_light",
     "optical_density", "eyespy_adc", "co2_sensor", "o2_sensor", "pumps"}

\* a reactor that takes every component for initialized
IsComponentInitializedAlways(c) == TRUE

\* Bioreactor.is_component_initialized (bioreactor.py:238-247)
IsComponentInitialized(c) == initialized[c]

\* an except block that marks the component whose access failed as not
\* initialized
FlagsMarkFailed(component, failed) ==
    IF failed THEN [initialized EXCEPT ![component] = FALSE] ELSE initialized

\* bioreactor._initialized after an operation whose access to a component
\* did or did not fail: the except blocks log the error and return
\* (io.py:572-574); nothing calls register_component (bioreactor.py:225-236)
FlagsAfterError(component, failed) == initialized

\* get_temperature (io.py:542-574).  read is what
\* temp_sensors[sensor_index].get_temperature() does: it returns a value, it
\* raises, or there is no sensor with that index.
GetTemperature(read) ==
    IF ~IsComponentInitialized("temp_sensor") THEN NaN
    ELSE IF read.kind = "missing" THEN NaN
    ELSE IF read.kind = "raise" THEN NaN
    ELSE IF /\ ~IsNaN(read.value)
            /\ (FLt(read.value, Zero) \/ FLt(Flt(100), read.value))
         THEN NaN
         ELSE read.value

\* PeltierDriver.set (io.py:26-57).  hw is what lgpio does: "ok", "no_lgpio"
\* (the import fails) or "fail" (gpio_write or tx_pwm raises).
PeltierSet(drv, duty_cycle, forward, hw) ==
    LET duty == FMax(Zero, FMin(Flt(100), duty_cycle))
    IN IF hw = "ok"
       THEN [drv |-> [duty |-> duty, forward |-> forward], ok |-> TRUE]
       ELSE [drv |-> drv, ok |-> FALSE]

\* PeltierDriver.stop (io.py:59-67)
PeltierStop(drv, hw) ==
    IF hw = "ok" THEN [drv EXCEPT !.duty = Zero] ELSE drv

\* The contract of PeltierDriver.set: "forward: Direction flag
\* (True=forward/heat, False=reverse/cool)" (io.py:32)
DriverForward(direction) == direction = "heat"

\* set_peltier_power, lines 594-604: the direction string as the driver's flag
ForwardFlag(forward) ==
    IF forward \in {"forward", "cool", "cold"} THEN TRUE
    ELSE IF forward \in {"reverse", "heat", "warm", "hot"} THEN FALSE
    ELSE forward \in {"true", "1", "on"}

\* set_peltier_power (io.py:577-606): the driver after the call and the log
\* entry of the call
SetPeltierPower(drv, duty_cycle, forward, hw) ==
    IF ~IsComponentInitialized("peltier_driver")
    THEN [drv |-> drv,
          entry |-> [op |-> "set_peltier_power", duty |-> duty_cycle,
                     direction |-> forward, driver |-> "none", ok |-> FALSE]]
    ELSE LET r == PeltierSet(drv, duty_cycle, ForwardFlag(forward), hw)
         IN [drv |-> r.drv,
             entry |-> [op |-> "set_peltier_power", duty |-> duty_cycle,
                        direction |-> forward, driver |-> "set", ok |-> r.ok]]

\* the peltier switched off by a set_peltier_power call with duty 0
StopPeltierViaSet(drv, hw) == SetPeltierPower(drv, Zero, "cool", hw)

\* stop_peltier (io.py:609-622)
StopPeltier(drv, hw) ==
    IF ~IsComponentInitialized("peltier_driver")
    THEN [drv |-> drv,
          entry |-> [op |-> "stop_peltier", duty |-> Zero,
                     direction |-> "none", driver |-> "none", ok |-> FALSE]]
    ELSE [drv |-> PeltierStop(drv, hw),
          entry |-> [op |-> "stop_peltier", duty |-> Zero,
                     direction |-> "none", driver |-> "stop", ok |-> hw = "ok"]]

(***************************************************************************)
(* temperature_pid_controller (utils.py:462-596).                          *)
(***************************************************************************)
\* a controller that updates on every reading
PidValidAlways(error, current_temp) == TRUE

\* line 546: if not np.isnan(error) and not np.isnan(current_temp)
PidValid(error, current_temp) == ~IsNaN(error) /\ ~IsNaN(current_temp)

\* line 560 without the upper clamp
PidDutyUnclamped(output, max_duty) == FMax(Zero, FAbs(output))

\* line 560: duty = max(0, min(max_duty, abs(output)))
PidDuty(output, max_duty) == FMax(Zero, FMin(max_duty, FAbs(output)))

\* line 566 with the two directions exchanged
PidDirectionSwapped(output) == IF FLt(Zero, output) THEN "cool" ELSE "heat"

\* line 566: direction = 'heat' if output > 0 else 'cool'
PidDirection(output) == IF FLt(Zero, output) THEN "heat" ELSE "cool"

\* One call.  a holds the arguments (an omitted argument is <<>>), a.read
\* what the temperature sensor does if it is read and a.hw what lgpio does if
\* the peltier is commanded.  The result holds the PID state, the driver and
\* the actuator calls after the call, and the call's local values.
PidController(a) ==
    LET \* lines 526-530
        current_temp == IF a.current_temp = <<>>
                        THEN GetTemperature(a.read) ELSE a.current_temp[1]
        error == FSub(a.setpoint, current_temp)
        \* lines 533-543
        current_time == IF a.elapsed # <<>> THEN a.elapsed[1] ELSE Flt(now)
        dt == IF a.dt # <<>> THEN a.dt[1]
              ELSE IF temp_last_time # <<>>
                   THEN FSub(current_time, temp_last_time[1])
                   ELSE Flt(1)
        last_time == IF a.dt = <<>> THEN <<current_time>>
                     ELSE IF a.elapsed # <<>> THEN <<a.elapsed[1]>>
                     ELSE temp_last_time
        \* lines 548-566
        integral == FAdd(temp_integral, FMul(error, dt))
        raw_derivative == IF FLt(Zero, dt)
                          THEN FDiv(FSub(error, temp_last_error), dt)
                          ELSE Zero
        derivative == FAdd(FMul(a.alpha, temp_last_derivative),
                           FMul(FSub(Flt(1), a.alpha), raw_derivative))
        output == FAdd(FAdd(FMul(a.kp, error), FMul(a.ki, integral)),
                       FMul(a.kd, derivative))
        duty == PidDuty(output, a.max_duty)
        direction == PidDirection(output)
        \* lines 569-575
        cmd == IF FLt(Zero, duty)
               THEN SetPeltierPower(peltier, duty, direction, a.hw)
               ELSE StopPeltier(peltier, a.hw)
    IN IF PidValid(error, current_temp)
       THEN [integral |-> integral, last_error |-> error,
             last_time |-> last_time, last_derivative |-> derivative,
             peltier |-> IF IsComponentInitialized("peltier_driver")
                         THEN cmd.drv ELSE peltier,
             log |-> IF IsComponentInitialized("peltier_driver")
                     THEN <<cmd.entry>> ELSE <<>>,
             call |-> [skipped |-> FALSE, current_temp |-> current_temp,
                       dt |-> dt, output |-> output, duty |-> duty,
                       direction |-> direction]]
       ELSE \* lines 591-596
            [integral |-> temp_integral, last_error |-> temp_last_error,
             last_time |-> last_time, last_derivative |-> temp_last_derivative,
             peltier |-> peltier, log |-> <<>>,
             call |-> [skipped |-> TRUE, current_temp |-> current_temp,
                       dt |-> dt, output |-> NaN, duty |-> NaN,
                       direction |-> "none"]]

(***************************************************************************)
(* Pumps (io.py:1032-1129).  A pump name is the sequence of its characters. *)
(* A Tic stepper controller is modelled by what it was last told: whether  *)
(* it is energized, and its target velocity.  A command that raises leaves *)
(* the controller as it was.                                               *)
(***************************************************************************)
Inflow == <<"i", "n", "f", "l", "o", "w">>
Outflow == <<"o", "u", "t", "f", "l", "o", "w">>
Waste == <<"w", "a", "s", "t", "e">>

\* the suffixes balanced_flow looks for (utils.py:728-734)
SufIn == <<"_", "i", "n">>
SufInflow == <<"_">> \o Inflow
SufOut == <<"_", "o", "u", "t">>
SufOutflow == <<"_">> \o Outflow

\* the fallback calibration of init_pumps and change_pump
DefaultStepsPerMl == 10000000

\* a controller as init_pumps leaves it (components.py:702-705)
NewPump == [energized |-> FALSE, velocity |-> 0]

\* the pump turns: it is energized with a non-zero target velocity
Running(pump) == pump.energized /\ pump.velocity # 0

\* int(x) of a float: truncation toward zero
Trunc(x) == IF x.n >= 0 THEN x.n \div x.d ELSE -((-x.n) \div x.d)

\* the conversion without the quantization to multiples of 8
StepsPerSecUnquantized(ml_per_sec, steps_per_ml) ==
    Trunc(FMul(ml_per_sec, Flt(steps_per_ml)))

\* steps_per_sec = 8 * int(ml_per_sec * steps_per_ml / 8)    (io.py:1077)
StepsPerSec(ml_per_sec, steps_per_ml) ==
    8 * Trunc(FDiv(FMul(ml_per_sec, Flt(steps_per_ml)), Flt(8)))

\* what a Tic command does to the controller
TicApply(pump, cmd, arg) ==
    CASE cmd = "energize" -> [pump EXCEPT !.energized = TRUE]
      [] cmd = "deenergize" -> [pump EXCEPT !.energized = FALSE]
      [] cmd = "set_target_velocity" -> [pump EXCEPT !.velocity = arg]
      [] OTHER -> pump

\* The state threaded through the statements of one call:
\*   pumps   : the controllers
\*   calls   : the change_pump calls made so far
\*   cmds    : the Tic commands issued so far, each tagged with its call
\*   base    : the number of commands issued before this step
\*   fail_at : the command of this step that raises (0: none does)
\*   raised  : the exception now propagating, "none" if there is none
StepState(fail_at) ==
    [pumps |-> pumps, calls |-> pump_log.calls, cmds |-> pump_log.cmds,
     base |-> Len(pump_log.cmds), fail_at |-> fail_at, raised |-> "none"]

\* one method call on a Tic controller (io.py:1085-1091)
Command(st, name, cmd, arg) ==
    LET entry(ok) == [pump |-> name, cmd |-> cmd, arg |-> arg, ok |-> ok,
                      call |-> Len(st.calls)]
    IN  IF st.raised # "none" THEN st
        ELSE IF st.fail_at = Len(st.cmds) - st.base + 1
        THEN [st EXCEPT !.cmds = Append(@, entry(FALSE)),
                        !.raised = "HardwareError"]
        ELSE [st EXCEPT !.cmds = Append(@, entry(TRUE)),
                        !.pumps[name] = TicApply(@, cmd, arg)]

\* the velocity == 0 test of change_pump, without the de-energize branch
IsZeroVelocityNever(velocity) == FALSE

\* velocity == 0    (io.py:1084)
IsZeroVelocity(velocity) == velocity = 0

\* the entry of a change_pump call in the log
PumpCallRecord(pump_name, ml_per_sec, velocity, raised) ==
    [pump |-> pump_name, ml_per_sec |-> ml_per_sec, velocity |-> velocity,
     raised |-> raised]

\* change_pump without its validation errors: a bad argument is dropped
RaiseNothing(st, pump_name, ml_per_sec) ==
    [st EXCEPT !.calls = Append(@, PumpCallRecord(pump_name, ml_per_sec,
                                                   <<>>, "none"))]

\* raise ValueError(...)    (io.py:1053, 1056, 1061, 1068)
RaiseValueError(st, pump_name, ml_per_sec) ==
    [st EXCEPT !.calls = Append(@, PumpCallRecord(pump_name, ml_per_sec,
                                                   <<>>, "ValueError")),
               !.raised = "ValueError"]

\* the direction argument, or the configured direction (io.py:1058-1068)
PumpDirection(pump_name, direction) ==
    IF direction # <<>> THEN direction[1]
    ELSE pump_configs[pump_name].direction

\* velocity = steps_per_sec if forward else -steps_per_sec (io.py:1071-1080)
PumpVelocity(pump_name, ml_per_sec, pump_direction) ==
    IF pump_direction = "forward"
    THEN StepsPerSec(ml_per_sec, pump_configs[pump_name].steps_per_ml)
    ELSE -StepsPerSec(ml_per_sec, pump_configs[pump_name].steps_per_ml)

\* the change_pump call ends: its log entry records what it raised
EndChangePump(st) == [st EXCEPT !.calls[Len(st.calls)].raised = st.raised]

\* the try block of change_pump (io.py:1082-1098)
DrivePump(st, pump_name, velocity) ==
    EndChangePump(
        IF IsZeroVelocity(velocity)
        THEN Command(st, pump_name, "deenergize", 0)
        ELSE Command(
               Command(
                 Command(st, pump_name, "energize", 0),
                 pump_name, "exit_safe_start", 0),
               pump_name, "set_target_velocity", velocity))

\* change_pump(bioreactor, pump_name, ml_per_sec, direction) (io.py:1032-1098)
\* direction is <<>> for None.  The call is recorded with the velocity it
\* computed (<<>> if it returned or raised before computing one).
ChangePump(st, pump_name, ml_per_sec, direction) ==
    IF ~IsComponentInitialized("pumps")
    THEN [st EXCEPT !.calls = Append(@, PumpCallRecord(pump_name, ml_per_sec,
                                                        <<>>, "none"))]
    ELSE IF pump_name \notin DOMAIN st.pumps
    THEN RaiseValueError(st, pump_name, ml_per_sec)
    ELSE IF FLt(ml_per_sec, Zero)
    THEN RaiseValueError(st, pump_name, ml_per_sec)
    ELSE IF PumpDirection(pump_name, direction) \notin {"forward", "reverse"}
    THEN RaiseValueError(st, pump_name, ml_per_sec)
    ELSE DrivePump(
           [st EXCEPT !.calls = Append(@,
               PumpCallRecord(pump_name, ml_per_sec,
                   <<PumpVelocity(pump_name, ml_per_sec,
                                  PumpDirection(pump_name, direction))>>,
                   "none"))],
           pump_name,
           PumpVelocity(pump_name, ml_per_sec,
                        PumpDirection(pump_name, direction)))

\* str.endswith
EndsWith(s, suffix) ==
    /\ Len(s) >= Len(suffix)
    /\ SubSeq(s, Len(s) - Len(suffix) + 1, Len(s)) = suffix

\* s.rsplit('_', 1)[0] if '_' in s else s    (utils.py:728, 731)
RSplitHead(s) ==
    IF \E i \in 1..Len(s) : s[i] = "_"
    THEN LET last == CHOOSE i \in 1..Len(s) :
                        /\ s[i] = "_"
                        /\ \A j \in (i + 1)..Len(s) : s[j] # "_"
         IN  SubSeq(s, 1, last - 1)
    ELSE s

\* the converse pump name of balanced_flow (utils.py:720-734): <<name>>, or
\* <<>> if it cannot be determined
ConverseName(pump_name) ==
    IF pump_name = Inflow THEN <<Outflow>>
    ELSE IF pump_name = Outflow THEN <<Inflow>>
    ELSE IF EndsWith(pump_name, SufIn) \/ EndsWith(pump_name, SufInflow)
    THEN LET base == RSplitHead(pump_name)
         IN  <<IF ~EndsWith(base, <<"o", "u", "t">>) THEN base \o SufOut
               ELSE base \o SufOutflow>>
    ELSE IF EndsWith(pump_name, SufOut) \/ EndsWith(pump_name, SufOutflow)
    THEN LET base == RSplitHead(pump_name)
         IN  <<IF ~EndsWith(base, <<"i", "n">>) THEN base \o SufIn
               ELSE base \o SufInflow>>
    ELSE <<>>

\* an except block that lets the exception go on to the caller
LogAndReraise(st) == st

\* except Exception as e: logger.error(...)    (utils.py:747, 767, 793)
LogAndSwallow(st) == [st EXCEPT !.raised = "none"]

\* duration is not None and duration > 0
Timed(duration) == duration # <<>> /\ duration[1] > 0

\* The result of balanced_flow's first part: the call sleeps (and will stop
\* to_stop when it wakes) if no pump command raised and a positive duration
\* was given; otherwise it returns, an exception having been logged.
SleepOrReturn(st, duration, to_stop, path) ==
    IF st.raised = "none" /\ Timed(duration)
    THEN [st |-> st, sleeps |-> TRUE, to_stop |-> to_stop, path |-> path]
    ELSE [st |-> LogAndSwallow(st), sleeps |-> FALSE, to_stop |-> <<>>,
          path |-> path]

\* the next change_pump of a try block runs unless an exception propagates
ThenChangePump(st, pump_name, ml_per_sec) ==
    IF st.raised = "none" THEN ChangePump(st, pump_name, ml_per_sec, <<>>)
    ELSE st

\* the single-pump fallback of balanced_flow (utils.py:740-748 and 760-768)
BalancedFlowSingle(st, pump_name, ml_per_sec, duration, path) ==
    SleepOrReturn(ChangePump(st, pump_name, ml_per_sec, <<>>),
                  duration, <<pump_name>>, path)

\* both pumps are set (utils.py:770-794)
BalancedFlowPair(st, pump_name, converse_name, ml_per_sec, duration) ==
    SleepOrReturn(
        ThenChangePump(ChangePump(st, pump_name, ml_per_sec, <<>>),
                       converse_name, ml_per_sec),
        duration, <<pump_name, converse_name>>, "pair")

\* balanced_flow up to its time.sleep or its return (utils.py:691-794)
BalancedFlowStart(st, pump_name, ml_per_sec, duration) ==
    IF ~IsComponentInitialized("pumps")
    THEN [st |-> st, sleeps |-> FALSE, to_stop |-> <<>>,
          path |-> "not_initialized"]
    ELSE IF ConverseName(pump_name) = <<>>
    THEN BalancedFlowSingle(st, pump_name, ml_per_sec, duration,
                            "no_converse_name")
    ELSE IF pump_name \notin DOMAIN st.pumps
    THEN [st |-> st, sleeps |-> FALSE, to_stop |-> <<>>,
          path |-> "primary_missing"]
    ELSE IF ConverseName(pump_name)[1] \notin DOMAIN st.pumps
    THEN BalancedFlowSingle(st, pump_name, ml_per_sec, duration,
                            "converse_missing")
    ELSE BalancedFlowPair(st, pump_name, ConverseName(pump_name)[1],
                          ml_per_sec, duration)

\* balanced_flow after its time.sleep: the pumps are stopped in order, and
\* the first failure ends the call (utils.py:744-748, 764-768, 782-794)
BalancedFlowStop(st, to_stop) ==
    LogAndSwallow(
        IF Len(to_stop) > 1
        THEN ThenChangePump(ChangePump(st, to_stop[1], Zero, <<>>),
                            to_stop[2], Zero)
        ELSE ChangePump(st, to_stop[1], Zero, <<>>))

NoPumpCall ==
    [fn |-> "none", pc |-> "idle", pump_name |-> <<>>, ml_per_sec |-> Zero,
     direction |-> <<>>, duration |-> <<>>, path |-> "none", to_stop |-> <<>>, called_at |-> 0,
     wake_at |-> 0, returned_at |-> 0, raised |-> "none"]

EmptyPumpLog == [calls |-> <<>>, cmds |-> <<>>]

\* the pumps before init_pumps has run
PumpIdle ==
    /\ pumps = <<>>
    /\ pump_configs = <<>>
    /\ pump_calls = 0
    /\ pump_call = NoPumpCall
    /\ pump_log = EmptyPumpLog

(***************************************************************************)
(* The measurement LED, the ring light and measure_od (io.py:121-539).     *)
(* A colour is a triple <<r, g, b>>.  A driver call whose hardware access  *)
(* fails (hw = "fail") is caught inside the driver and changes nothing.    *)
(***************************************************************************)
Black == <<0, 0, 0>>

\* RingLightDriver as constructed (io.py:177-178)
RingLightOff == [color |-> Black, is_on |-> FALSE]

\* RingLightDriver.off (io.py:235-247)
RingOff(ring, hw) == IF hw = "ok" THEN RingLightOff ELSE ring

\* max(0, min(255, int(c)))    (io.py:206-208)
ClampColor(color) == [i \in 1..3 |-> Max(0, Min(255, color[i]))]

\* RingLightDriver.set_color with pixel=None (io.py:192-233)
RingSetColor(ring, color, hw) ==
    IF hw = "ok"
    THEN [color |-> ClampColor(color),
          is_on |-> \E i \in 1..3 : ClampColor(color)[i] > 0]
    ELSE ring

\* set_led (io.py:292-315) with LEDDriver.set_power (io.py:131-151): the new
\* LED power and the value returned
SetLed(power_now, power, hw) ==
    IF ~IsComponentInitialized("led") THEN [power |-> power_now, ok |-> FALSE]
    ELSE IF hw = "ok" THEN [power |-> Max(0, Min(100, power)), ok |-> TRUE]
    ELSE [power |-> power_now, ok |-> FALSE]

\* LEDDriver.off (io.py:153-161)
LedOff(power_now, hw) == IF hw = "ok" THEN 0 ELSE power_now

\* set_ring_light (io.py:318-342): the ring light after the call and the
\* value returned
SetRingLightResult(ring, color, hw) ==
    IF ~IsComponentInitialized("ring_light")
    THEN [ring |-> ring, ok |-> FALSE]
    ELSE [ring |-> RingSetColor(ring, color, hw), ok |-> hw = "ok"]

\* turn_off_ring_light (io.py:345-361)
TurnOffRingLight(ring, hw) ==
    IF ~IsComponentInitialized("ring_light") THEN ring ELSE RingOff(ring, hw)

(***************************************************************************)
(* ring_light_cycle (utils.py:599-688).  rc is the cycle's state on the    *)
(* reactor, ring the ring light driver, elapsed the argument (<<>> if      *)
(* omitted) and hw what the LED strip does when it is commanded.           *)
(***************************************************************************)
\* lines 666 and 676 with the test left out: the state switches on every call
SwitchDueAlways(time_since_switch, period) == TRUE

\* time_since_switch >= on_time, time_since_switch >= off_time (lines 666, 676)
SwitchDue(time_since_switch, period) == time_since_switch >= period

\* a ring-light command of the call and whether the strip took it
RingCmd(op, hw) == [op |-> op, ok |-> hw = "ok"]

\* lines 644-651: the state is created, and the ring light turned on, on
\* the first call
RingCycleFirst(rc, ring, hw) ==
    IF rc.state = "unset"
    THEN [rc |-> [rc EXCEPT !.state = "on", !.last_switch_time = <<>>,
                            !.cmds = <<RingCmd("set_ring_light", hw)>>],
          ring |-> SetRingLightResult(ring, rc.color, hw).ring]
    ELSE [rc |-> [rc EXCEPT !.cmds = <<>>], ring |-> ring]

\* lines 653-663: current_time, and the last switch time set on the first call
RingCycleTime(rc, elapsed) ==
    LET start_time == IF elapsed = <<>> /\ rc.start_time = <<>>
                      THEN <<now>> ELSE rc.start_time
        current_time == IF elapsed = <<>> THEN now - start_time[1]
                        ELSE elapsed[1]
    IN  [rc EXCEPT !.start_time = start_time,
                   !.current_time = current_time,
                   !.last_switch_time =
                       IF @ = <<>> THEN <<current_time>> ELSE @]

\* lines 665-688: the switch, if it is due
RingCycleSwitch(rc, ring, hw) ==
    LET time_since_switch == rc.current_time - rc.last_switch_time[1]
    IN  IF rc.state = "on"
        THEN IF SwitchDue(time_since_switch, rc.on_time)
             THEN [rc |-> [rc EXCEPT
                             !.state = "off",
                             !.last_switch_time = <<rc.current_time>>,
                             !.cmds = Append(@, RingCmd("turn_off_ring_light",
                                                        hw))],
                   ring |-> TurnOffRingLight(ring, hw)]
             ELSE [rc |-> rc, ring |-> ring]
        ELSE IF SwitchDue(time_since_switch, rc.off_time)
             THEN [rc |-> IF SetRingLightResult(ring, rc.color, hw).ok
                          THEN [rc EXCEPT
                                  !.state = "on",
                                  !.last_switch_time = <<rc.current_time>>,
                                  !.cmds = Append(@, RingCmd("set_ring_light",
                                                             hw))]
                          ELSE [rc EXCEPT
                                  !.cmds = Append(@, RingCmd("set_ring_light",
                                                             hw))],
                   ring |-> SetRingLightResult(ring, rc.color, hw).ring]
             ELSE [rc |-> rc, ring |-> ring]

\* one call of ring_light_cycle
RingLightCycle(rc, ring, elapsed, hw) ==
    IF ~IsComponentInitialized("ring_light")
    THEN [rc |-> [rc EXCEPT !.calls = @ + 1, !.cmds = <<>>], ring |-> ring]
    ELSE LET first == RingCycleFirst([rc EXCEPT !.calls = @ + 1], ring, hw)
         IN  RingCycleSwitch(RingCycleTime(first.rc, elapsed), first.ring, hw)

\* bioreactor.od_channels and bioreactor.eyespy_boards of an initialized
\* reactor
OdChannels == {"Trx", "Ref"}
EyespyBoards == {"eyespy1"}

\* channels_to_measure (io.py:407-416) and eyespy_boards (io.py:418-421)
ChannelsToMeasure(channel_name) ==
    IF ~IsComponentInitialized("optical_density") THEN {}
    ELSE IF channel_name = "all" THEN OdChannels
    ELSE {channel_name}

BoardsToMeasure ==
    IF IsComponentInitialized("eyespy_adc") THEN EyespyBoards ELSE {}

\* measure_od's restore of the ring light (io.py:469-475 and 529-538)
RestoreRingLight(ring, was_on, previous_color, hw) ==
    IF ~IsComponentInitialized("ring_light") THEN ring
    ELSE IF was_on THEN RingSetColor(ring, previous_color, hw)
    ELSE RingOff(ring, hw)

RECURSIVE SumSeq(_)
SumSeq(q) == IF q = <<>> THEN 0 ELSE q[1] + SumSeq(Tail(q))

\* sum(readings) / len(readings)
Average(q) == F(SumSeq(q), Len(q))

\* results without the None entries (io.py:477-512), as source-average pairs
ValidResults(readings) ==
    { <<src, Average(readings[src])>> :
         src \in { x \in DOMAIN readings : readings[x] # <<>> } }

\* the value measure_od returns after sampling (io.py:504-520)
OdResult(channel_name, readings) ==
    IF channel_name = "all" \/ BoardsToMeasure # {}
    THEN IF ValidResults(readings) = {}
         THEN [kind |-> "None", values |-> {}]
         ELSE [kind |-> "dict", values |-> ValidResults(readings)]
    ELSE IF channel_name \in DOMAIN readings /\ readings[channel_name] # <<>>
         THEN [kind |-> "float", values |-> ValidResults(readings)]
         ELSE [kind |-> "None", values |-> {}]

NoOdCall ==
    [pc |-> "idle", path |-> "none", led_power |-> 0,
     averaging_duration |-> <<>>, channel_name |-> "",
     ring_light_was_on |-> FALSE, ring_light_previous_color |-> Black,
     readings |-> <<>>, t |-> 0, entry_ring |-> RingLightOff,
     exit_ring |-> RingLightOff, result |-> [kind |-> "None", values |-> {}]]

\* the LED and ring light drivers as constructed
OdIdle ==
    /\ ring_light = RingLightOff
    /\ led = 0
    /\ od_call = NoOdCall

(***************************************************************************)
(* The CSV header (bioreactor.py:75-166) and the records of the latest     *)
(* io.py call and of the latest measure_and_record_sensors call.           *)
(***************************************************************************)
\* f"od_{ch_name.lower()}" and the label f"OD_{ch_name}_V"
\* (bioreactor.py:90-97, utils.py:370-385)
PlotKey == [Trx |-> "od_trx", Ref |-> "od_ref"]
OdLabel == [Trx |-> "OD_Trx_V", Ref |-> "OD_Ref_V"]

\* f"eyespy_{board_name}_raw", f"eyespy_{board_name}_voltage" and their
\* labels (bioreactor.py:100-107, utils.py:390-400)
RawKey == [eyespy1 |-> "eyespy_eyespy1_raw"]
VoltageKey == [eyespy1 |-> "eyespy_eyespy1_voltage"]
RawLabel == [eyespy1 |-> "Eyespy_eyespy1_raw"]
VoltageLabel == [eyespy1 |-> "Eyespy_eyespy1_V"]

\* the labels of config.SENSOR_LABELS that the constructor keeps: those of
\* the components that INIT_COMPONENTS enables (bioreactor.py:82-163)
SensorLabels(enabled) ==
    (IF enabled["optical_density"]
     THEN { OdLabel[ch] : ch \in OdChannels } ELSE {})
    \cup (IF enabled["eyespy_adc"]
          THEN { RawLabel[b] : b \in EyespyBoards }
               \cup { VoltageLabel[b] : b \in EyespyBoards }
          ELSE {})
    \cup (IF enabled["temp_sensor"] THEN {"temperature_C"} ELSE {})
    \cup (IF enabled["co2_sensor"] THEN {"CO2_ppm"} ELSE {})
    \cup (IF enabled["o2_sensor"] THEN {"O2_percent"} ELSE {})

\* fieldnames = ['time', 'elapsed_time'] + labels    (bioreactor.py:163)
Fieldnames(enabled) == {"time", "elapsed_time"} \cup SensorLabels(enabled)

\* no io.py function has been called yet
NoIoCall ==
    [fn |-> "none", component |-> "none", result |-> "none",
     driver_calls |-> 0, raised |-> "none", n |-> 0]

\* measure_and_record_sensors has not been called yet
NoCycle ==
    [pc |-> "idle", failing |-> {}, led_ok |-> TRUE, reads |-> {},
     sensor_data |-> <<>>, row |-> <<>>, rows |-> 0, write_ok |-> TRUE,
     raised |-> "none"]

\* balanced_flow has resolved no converse pump name yet
NoResolution ==
    [pc |-> "idle", pump_name |-> <<>>, converse_name |-> <<>>,
     back |-> <<>>]

\* ring_light_cycle has not been called yet: the reactor has no
\* _ring_light_state attribute (utils.py:644)
\* It also holds the color, on_time and off_time the job is bound to
\* (utils.py:601-603), and of the latest call its current_time and the
\* ring-light commands it issued.
NoRingCycle ==
    [state |-> "unset", last_switch_time |-> <<>>, start_time |-> <<>>,
     color |-> <<50, 50, 50>>, on_time |-> 60, off_time |-> 60,
     calls |-> 0, current_time |-> 0, cmds |-> <<>>]

\* the control routines before their first call, and the data file as the
\* constructor opens it (bioreactor.py:183-187)
CtlIdle ==
    /\ converse = NoResolution
    /\ ring_cycle = NoRingCycle
    /\ out_file = "open"

\* a reactor built from a configuration that enables every component, before
\* any io.py call
RecIdle ==
    /\ stirrer = 0
    /\ io_call = NoIoCall
    /\ init_components = [c \in Components |-> TRUE]
    /\ fieldnames = Fieldnames(init_components)
    /\ cycle = NoCycle
    /\ CtlIdle

(***************************************************************************)
(* Bounds and inputs of the PID model.                                     *)
(***************************************************************************)
MaxPidCalls == 2   \* temperature_pid_controller is called at most this often
MaxElapsed == 2    \* the largest elapsed argument

Optional(S) == {<<>>} \cup { <<x>> : x \in S }

\* what the temperature sensor does when it is read
SensorReads ==
    {[kind |-> "value", value |-> Flt(27)], [kind |-> "value", value |-> Flt(120)],
     [kind |-> "raise", value |-> NaN]}

NoRead == [kind |-> "missing", value |-> NaN]

\* the keyword arguments a PID job is bound to (functools.partial, utils.py:505)
PidConfig(kp, ki, kd, max_duty) ==
    [setpoint |-> Flt(37), kp |-> Flt(kp), ki |-> Flt(ki), kd |-> Flt(kd),
     alpha |-> F(1, 2), max_duty |-> Flt(max_duty)]

PidConfigs ==
    {PidConfig(12, 1, 0, 70), PidConfig(12, 0, 1, 150), PidConfig(0, 1, 1, 150),
     PidConfig(0, 0, 0, 70), PidConfig(1, 0, 0, 70), PidConfig(1, 1, 0, -10)}

\* the arguments and outcomes that vary from call to call
PidInputs ==
    { a \in [current_temp : Optional({NaN, Flt(27), Flt(38)}),
             dt : Optional({Flt(2)}),
             elapsed : Optional({Flt(MaxElapsed)}),
             read : SensorReads \cup {NoRead},
             hw : {"ok", "fail"}] :
        \* the sensor is read only if current_temp is omitted
        (a.read = NoRead) <=> (a.current_temp # <<>>) }

PidArgs(cfg, in) ==
    [setpoint |-> cfg.setpoint, kp |-> cfg.kp, ki |-> cfg.ki, kd |-> cfg.kd,
     alpha |-> cfg.alpha, max_duty |-> cfg.max_duty,
     current_temp |-> in.current_temp, dt |-> in.dt, elapsed |-> in.elapsed,
     read |-> in.read, hw |-> in.hw]

NoCall ==
    [skipped |-> TRUE, current_temp |-> NaN, dt |-> Zero, output |-> NaN,
     duty |-> NaN, direction |-> "none"]

\* the scheduler before run() (bioreactor.py:72-74)
SchedIdle ==
    /\ now = 0
    /\ stop_event = FALSE
    /\ lanes = <<>>
    /\ stop_calls = 0
    /\ first_stop = -1

\* the PID state that temperature_pid_controller creates on its first call
\* (utils.py:516-523) and the driver as constructed (io.py:23-24)
PidIdle ==
    /\ temp_integral = Zero
    /\ temp_last_error = Zero
    /\ temp_last_time = <<>>
    /\ temp_last_derivative = Zero
    /\ peltier = [duty |-> Zero, forward |-> TRUE]
    /\ pid_cfg \in PidConfigs
    /\ pid_calls = 0
    /\ pid_call = NoCall
    /\ pid_log = <<>>

\* what a call of temperature_pid_controller leaves on the reactor
PidUpdate(in) ==
    /\ LET r == PidController(PidArgs(pid_cfg, in))
       IN /\ temp_integral' = r.integral
          /\ temp_last_error' = r.last_error
          /\ temp_last_time' = r.last_time
          /\ temp_last_derivative' = r.last_derivative
          /\ peltier' = r.peltier
          /\ pid_log' = r.log
          /\ pid_call' = r.call
    /\ pid_calls' = pid_calls + 1

\* a call of temperature_pid_controller
PidStep(in) ==
    /\ pid_calls < MaxPidCalls
    /\ PidUpdate(in)
    /\ UNCHANGED <<sched_vars, initialized, pid_cfg,
                   pump_vars, od_vars, rec_vars>>

PidInit ==
    /\ SchedIdle
    /\ PumpIdle
    /\ OdIdle
    /\ initialized \in
          { f \in [Components -> BOOLEAN] :
              /\ f["temp_sensor"]
              /\ \A c \in Components \ {"temp_sensor", "peltier_driver"} : ~f[c] }
    /\ PidIdle
    /\ RecIdle

PidNext == \E in \in PidInputs : PidStep(in)

SpecPID == PidInit /\ [][PidNext]_vars

(***************************************************************************)
(* The scheduler on its own: run(), stop_all() and the lanes.              *)
(***************************************************************************)
SchedInit ==
    /\ SchedIdle
    /\ initialized = [c \in Components |-> FALSE]
    /\ PidIdle
    /\ pid_cfg = PidConfig(12, 1, 0, 70)
    /\ PumpIdle
    /\ OdIdle
    /\ RecIdle

SchedNext ==
    \/ \E jobs \in JobLists : lanes = <<>> /\ Run(jobs)
    \/ StopAll
    \/ Tick
    \/ \E i \in LaneIds : LaneCheck(i)
    \/ \E i \in LaneIds : LaneCall(i)
    \/ \E i \in LaneIds : LaneReturn(i)

SpecSched == SchedInit /\ [][SchedNext]_vars

(***************************************************************************)
(* The pumps on their own: init_pumps, change_pump and balanced_flow.      *)
(***************************************************************************)
MaxPumpCalls == 2   \* change_pump / balanced_flow are called at most this often
MaxSleep == 2       \* the longest duration argument of balanced_flow
MaxFaultAt == 4     \* the latest Tic command of a step that is made to raise

PumpConfig(direction, steps_per_ml) ==
    [direction |-> direction, steps_per_ml |-> steps_per_ml]

\* the pump_configs that init_pumps can leave (components.py:706-716): an
\* inflow/outflow pair, and an inflow pump whose converse failed to start
PumpSetups ==
    { (Inflow :> PumpConfig("forward", DefaultStepsPerMl))
         @@ (Outflow :> PumpConfig("reverse", 4)),
      (Inflow :> PumpConfig("forward", 4))
         @@ (Waste :> PumpConfig("forward", DefaultStepsPerMl)) }

PumpNames == {Inflow, Outflow, Waste}
PumpRates == {Flt(-1), F(1, 2), Flt(2)}
PumpDurations == {<<>>, <<0>>, <<MaxSleep>>}
PumpDirections == {<<>>, <<"reverse">>, <<"up">>}
FaultPoints == {0, 1, MaxFaultAt}

\* init_pumps succeeds (components.py:731-737)
InitPumps(setup) ==
    /\ ~initialized["pumps"]
    /\ pump_call.pc # "sleeping"
    /\ initialized' = [initialized EXCEPT !["pumps"] = TRUE]
    /\ pumps' = [n \in DOMAIN setup |-> NewPump]
    /\ pump_configs' = setup
    /\ UNCHANGED <<sched_vars, pid_vars, pump_calls, pump_call,
                   pump_log, od_vars, rec_vars>>

\* the state a call starts from: its log is empty
CallState(fail_at) ==
    [StepState(fail_at) EXCEPT !.calls = <<>>, !.cmds = <<>>, !.base = 0]

\* a step of a call has run to st: the controllers and the log follow
PumpStepDone(st) ==
    /\ pumps' = st.pumps
    /\ pump_log' = [calls |-> st.calls, cmds |-> st.cmds]

ChangePumpReturns(st, pump_name, ml_per_sec, direction) ==
    /\ PumpStepDone(st)
    /\ pump_call' = [NoPumpCall EXCEPT
                        !.fn = "change_pump", !.pc = "returned",
                        !.pump_name = pump_name, !.ml_per_sec = ml_per_sec,
                        !.direction = direction,
                        !.called_at = now, !.wake_at = now,
                        !.returned_at = now, !.raised = st.raised]

\* a job or the operator calls change_pump
ChangePumpCall(pump_name, ml_per_sec, direction, fail_at) ==
    /\ pump_call.pc # "sleeping"
    /\ pump_calls < MaxPumpCalls
    /\ ChangePumpReturns(
          ChangePump(CallState(fail_at), pump_name, ml_per_sec, direction),
          pump_name, ml_per_sec, direction)
    /\ pump_calls' = pump_calls + 1
    /\ UNCHANGED <<sched_vars, initialized, pid_vars,
                   pump_configs, od_vars, rec_vars>>

BalancedFlowSleepsOrReturns(r, pump_name, ml_per_sec, duration) ==
    /\ PumpStepDone(r.st)
    /\ pump_call' =
          [fn |-> "balanced_flow",
           pc |-> IF r.sleeps THEN "sleeping" ELSE "returned",
           pump_name |-> pump_name, ml_per_sec |-> ml_per_sec,
           direction |-> <<>>, duration |-> duration, path |-> r.path, to_stop |-> r.to_stop,
           called_at |-> now,
           wake_at |-> IF r.sleeps THEN now + duration[1] ELSE now,
           returned_at |-> now, raised |-> r.st.raised]

\* a job calls balanced_flow, which runs to its time.sleep or to its return
BalancedFlowCall(pump_name, ml_per_sec, duration, fail_at) ==
    /\ pump_call.pc # "sleeping"
    /\ pump_calls < MaxPumpCalls
    /\ BalancedFlowSleepsOrReturns(
          BalancedFlowStart(CallState(fail_at), pump_name, ml_per_sec,
                            duration),
          pump_name, ml_per_sec, duration)
    /\ pump_calls' = pump_calls + 1
    /\ UNCHANGED <<sched_vars, initialized, pid_vars,
                   pump_configs, od_vars, rec_vars>>

BalancedFlowReturns(st) ==
    /\ PumpStepDone(st)
    /\ pump_call' = [pump_call EXCEPT !.pc = "returned",
                                      !.returned_at = now,
                                      !.raised = st.raised]

\* time.sleep(duration) is over: balanced_flow stops its pumps and returns
BalancedFlowWake(fail_at) ==
    /\ pump_call.pc = "sleeping"
    /\ now >= pump_call.wake_at
    /\ BalancedFlowReturns(
          BalancedFlowStop(StepState(fail_at), pump_call.to_stop))
    /\ UNCHANGED <<sched_vars, initialized, pid_vars, pump_configs,
                   pump_calls, od_vars, rec_vars>>

\* the clock advances while balanced_flow sleeps
PumpTick ==
    /\ pump_call.pc = "sleeping"
    /\ now < pump_call.wake_at
    /\ now' = now + 1
    /\ UNCHANGED <<stop_event, lanes, stop_calls, first_stop, io_vars>>

PumpInit ==
    /\ SchedIdle
    /\ initialized = [c \in Components |-> FALSE]
    /\ PidIdle
    /\ pid_cfg = PidConfig(12, 1, 0, 70)
    /\ PumpIdle
    /\ OdIdle
    /\ RecIdle

PumpNext ==
    \/ \E setup \in PumpSetups : InitPumps(setup)
    \/ \E n \in PumpNames, r \in PumpRates, d \in PumpDirections,
          f \in FaultPoints \ {MaxFaultAt} : ChangePumpCall(n, r, d, f)
    \/ \E n \in PumpNames, r \in PumpRates, d \in PumpDurations,
          f \in FaultPoints : BalancedFlowCall(n, r, d, f)
    \/ \E f \in FaultPoints : BalancedFlowWake(f)
    \/ PumpTick

SpecPump == PumpInit /\ [][PumpNext]_vars

(***************************************************************************)
(* The flow-to-velocity conversion of change_pump on its own: one pump     *)
(* with a calibration and a direction, and change_pump calls at various    *)
(* flow rates.  init_pumps stores whatever steps_per_ml the configuration  *)
(* gives (components.py:708), so a negative value is among the inputs.     *)
(***************************************************************************)
StepsPerMlValues == {-12, 0, 4, 12, 100, DefaultStepsPerMl}
FlowRates == {Zero, F(1, 250), F(1, 2), F(7, 4), Flt(2), Flt(3)}

ConvertInit ==
    /\ SchedIdle
    /\ PidIdle
    /\ pid_cfg = PidConfig(12, 1, 0, 70)
    /\ OdIdle
    /\ initialized = [c \in Components |-> c = "pumps"]
    /\ pumps = (Inflow :> NewPump)
    /\ \E d \in {"forward", "reverse"}, spm \in StepsPerMlValues :
          pump_configs = (Inflow :> PumpConfig(d, spm))
    /\ pump_calls = 0
    /\ pump_call = NoPumpCall
    /\ pump_log = EmptyPumpLog
    /\ RecIdle

ConvertNext ==
    \E r \in FlowRates : ChangePumpCall(Inflow, r, <<>>, 0)

SpecConvert == ConvertInit /\ [][ConvertNext]_vars

(***************************************************************************)
(* measure_od on its own, with the ring light set between measurements.    *)
(* averaging_duration is counted in sample intervals (io.py:448); <<>> is  *)
(* a value that is no number, for which the loop test raises TypeError.    *)
(***************************************************************************)
MaxSamples == 2   \* the longest averaging_duration, in sample intervals

\* the components a reactor can have initialized
OdSetups ==
    { [c \in Components |-> c \in on] :
        on \in { {"led", "optical_density", "eyespy_adc", "ring_light"},
                 {"led", "optical_density", "ring_light"},
                 {"led", "eyespy_adc", "ring_light"},
                 {"led", "optical_density"},
                 {"led", "ring_light"},
                 {"optical_density", "ring_light"} } }

RingColors == {Black, <<10, 20, 30>>, <<300, 0, -5>>}
OdDurations == {<<>>, <<MaxSamples>>}
OdChannelNames == {"Trx", "all"}
Hw == {"ok", "fail"}

\* what the ADC reads in one pass of the sampling loop: a voltage, except
\* for the sources whose read fails (read_voltage then returns None)
ReadPlans ==
    { [v |-> 1, failing |-> {}], [v |-> 3, failing |-> {}],
      [v |-> 1, failing |-> {"Trx"}],
      [v |-> 1, failing |-> OdChannels \cup EyespyBoards] }

\* set_ring_light(bioreactor, color) (io.py:318-342)
SetRingLight(color, hw) ==
    /\ od_call.pc # "led_on"
    /\ IsComponentInitialized("ring_light")
    /\ ring_light' = RingSetColor(ring_light, color, hw)
    /\ ring_light' # ring_light
    /\ UNCHANGED <<sched_vars, initialized, pid_vars, pump_vars,
                   led, od_call, rec_vars>>

\* measure_od returns None before it touches the ring light (io.py:391-412)
OdEarlyReturn(led_power, averaging_duration, channel_name, path) ==
    /\ od_call' = [NoOdCall EXCEPT
                      !.pc = "returned", !.path = path,
                      !.led_power = led_power,
                      !.averaging_duration = averaging_duration,
                      !.channel_name = channel_name,
                      !.entry_ring = ring_light, !.exit_ring = ring_light]
    /\ UNCHANGED <<ring_light, led>>

\* measure_od from the ring light dodge to the LED switch-on (io.py:423-441)
OdSwitchOn(led_power, averaging_duration, channel_name, dodged, l) ==
    /\ ring_light' = dodged
    /\ led' = l.power
    /\ od_call' =
          [pc |-> IF l.ok THEN "led_on" ELSE "returned",
           path |-> IF l.ok THEN "measuring" ELSE "led_failed",
           led_power |-> led_power,
           averaging_duration |-> averaging_duration,
           channel_name |-> channel_name,
           ring_light_was_on |->
               IsComponentInitialized("ring_light") /\ ring_light.is_on,
           ring_light_previous_color |->
               IF IsComponentInitialized("ring_light") THEN ring_light.color
               ELSE Black,
           readings |->
               [src \in ChannelsToMeasure(channel_name) \cup BoardsToMeasure
                   |-> <<>>],
           t |-> 0, entry_ring |-> ring_light, exit_ring |-> dodged,
           result |-> [kind |-> "None", values |-> {}]]

\* measure_od is called and runs until the LED is on, or returns early
MeasureOdCall(led_power, averaging_duration, channel_name, led_hw, ring_hw) ==
    /\ od_call.pc # "led_on"
    /\ IF ~IsComponentInitialized("led")
       THEN OdEarlyReturn(led_power, averaging_duration, channel_name,
                          "led_not_initialized")
       ELSE IF /\ ~IsComponentInitialized("optical_density")
               /\ ~IsComponentInitialized("eyespy_adc")
       THEN OdEarlyReturn(led_power, averaging_duration, channel_name,
                          "no_sensor")
       ELSE IF /\ IsComponentInitialized("optical_density")
               /\ channel_name = "all"
               /\ OdChannels = {}
       THEN OdEarlyReturn(led_power, averaging_duration, channel_name,
                          "no_channels")
       ELSE OdSwitchOn(led_power, averaging_duration, channel_name,
                       IF IsComponentInitialized("ring_light")
                       THEN RingOff(ring_light, ring_hw) ELSE ring_light,
                       SetLed(led, led_power, led_hw))
    /\ UNCHANGED <<sched_vars, initialized, pid_vars, pump_vars, rec_vars>>

\* read_voltage / read_eyespy_voltage of one source in one pass
ReadVoltage(plan, src) == IF src \in plan.failing THEN <<>> ELSE <<plan.v>>

\* one pass of the sampling loop (io.py:450-463)
OdSample(plan) ==
    /\ od_call.pc = "led_on"
    /\ od_call.averaging_duration # <<>>
    /\ od_call.t < od_call.averaging_duration[1]
    /\ od_call' = [od_call EXCEPT
                      !.readings = [src \in DOMAIN @ |->
                                       @[src] \o ReadVoltage(plan, src)],
                      !.t = @ + 1]
    /\ UNCHANGED <<sched_vars, initialized, pid_vars, pump_vars, ring_light,
                   led, rec_vars>>

\* The sampling loop ends.  If the loop test raised, the except block turns
\* the LED off, restores the ring light and returns None (io.py:522-539);
\* otherwise the LED is turned off, the ring light restored and the
\* averages are returned (io.py:465-520).
OdFinish(led_hw, ring_hw) ==
    /\ od_call.pc = "led_on"
    /\ IF od_call.averaging_duration = <<>> THEN TRUE
       ELSE od_call.t >= od_call.averaging_duration[1]
    /\ led' = LedOff(led, led_hw)
    /\ ring_light' = RestoreRingLight(ring_light, od_call.ring_light_was_on,
                                      od_call.ring_light_previous_color,
                                      ring_hw)
    /\ od_call' = [od_call EXCEPT
                      !.pc = "returned",
                      !.path = IF od_call.averaging_duration = <<>>
                               THEN "exception" ELSE "measured",
                      !.exit_ring = ring_light',
                      !.result =
                          IF od_call.averaging_duration = <<>>
                          THEN [kind |-> "None", values |-> {}]
                          ELSE OdResult(od_call.channel_name,
                                        od_call.readings)]
    /\ UNCHANGED <<sched_vars, initialized, pid_vars, pump_vars, rec_vars>>

OdInit ==
    /\ SchedIdle
    /\ initialized \in OdSetups
    /\ PidIdle
    /\ pid_cfg = PidConfig(12, 1, 0, 70)
    /\ PumpIdle
    /\ OdIdle
    /\ RecIdle

OdNext ==
    \/ \E color \in RingColors, hw \in Hw : SetRingLight(color, hw)
    \/ \E d \in OdDurations, ch \in OdChannelNames, led_hw \in Hw,
          ring_hw \in Hw : MeasureOdCall(50, d, ch, led_hw, ring_hw)
    \/ \E plan \in ReadPlans : OdSample(plan)
    \/ \E led_hw \in Hw, ring_hw \in Hw : OdFinish(led_hw, ring_hw)

SpecOD == OdInit /\ [][OdNext]_vars

(***************************************************************************)
(* ring_light_cycle and measure_od as two jobs of one run(): the calls of  *)
(* ring_light_cycle interleave with the steps of measure_od, as the two    *)
(* threads share the ring light without a lock (bioreactor.py:287-291).    *)
(***************************************************************************)
MaxRingCalls == 3   \* ring_light_cycle is called at most this often
MaxRingTime == 2    \* the largest elapsed argument and clock value
MaxRingPeriod == 2  \* the largest on_time and off_time

RingPeriods == 1..MaxRingPeriod

\* the reactors: with a ring light, and without one
RingSetups ==
    { [c \in Components |-> c \in on] :
        on \in { {"led", "optical_density", "ring_light"},
                 {"led", "optical_density"} } }

\* a lane calls ring_light_cycle(bioreactor, elapsed=...), or it is called
\* directly without elapsed
RingLightCycleCall(elapsed, hw) ==
    /\ ring_cycle.calls < MaxRingCalls
    /\ ring_cycle' = RingLightCycle(ring_cycle, ring_light, elapsed, hw).rc
    /\ ring_light' = RingLightCycle(ring_cycle, ring_light, elapsed, hw).ring
    /\ UNCHANGED <<sched_vars, initialized, pid_vars, pump_vars, led, od_call,
                   stirrer, io_call, init_components, fieldnames, cycle,
                   converse, out_file>>

\* a second passes
RingTick ==
    /\ now < MaxRingTime
    /\ now' = now + 1
    /\ UNCHANGED <<stop_event, lanes, stop_calls, first_stop, io_vars>>

RingInit ==
    /\ SchedIdle
    /\ initialized \in RingSetups
    /\ PidIdle
    /\ pid_cfg = PidConfig(12, 1, 0, 70)
    /\ PumpIdle
    /\ OdIdle
    /\ stirrer = 0
    /\ io_call = NoIoCall
    /\ init_components = [c \in Components |-> TRUE]
    /\ fieldnames = Fieldnames(init_components)
    /\ cycle = NoCycle
    /\ converse = NoResolution
    /\ \E on_time \in RingPeriods, off_time \in RingPeriods :
          ring_cycle = [NoRingCycle EXCEPT !.on_time = on_time,
                                           !.off_time = off_time]
    /\ out_file = "open"

RingNext ==
    \/ \E elapsed \in Optional(0..MaxRingTime), hw \in Hw :
          RingLightCycleCall(elapsed, hw)
    \/ RingTick
    \/ \E led_hw \in Hw, ring_hw \in Hw :
          MeasureOdCall(50, <<1>>, "Trx", led_hw, ring_hw)
    \/ OdSample([v |-> 1, failing |-> {}])
    \/ \E led_hw \in Hw, ring_hw \in Hw : OdFinish(led_hw, ring_hw)

SpecRing == RingInit /\ [][RingNext]_vars

(***************************************************************************)
(* The read and write functions of io.py on their own, on reactors whose   *)
(* components did or did not initialize.  hw is what the hardware access   *)
(* of the call does: "ok", or "fail" (it raises inside the driver).        *)
(***************************************************************************)
MaxIoCalls == 2   \* io.py functions are called at most this often

\* the components whose initialization succeeded: none, all, and all but
\* some
IoSetups ==
    { [c \in Components |-> c \in on] :
        on \in { {}, Components,
                 Components \ {"led", "pumps", "co2_sensor", "stirrer"},
                 Components \ {"optical_density", "eyespy_adc", "temp_sensor",
                               "peltier_driver", "ring_light", "o2_sensor"} } }

\* the record of an io.py call that returned result after driver_calls
\* accesses to the component's driver
IoRecord(fn, component, result, driver_calls) ==
    [fn |-> fn, component |-> component, result |-> result,
     driver_calls |-> driver_calls, raised |-> "none", n |-> io_call.n + 1]

\* the number of calls made so far
CallsMade ==
    io_call.n + pump_calls + (IF od_call.pc = "idle" THEN 0 ELSE 1)

\* get_temperature(bioreactor, sensor_index) (io.py:542-574); the sensor is
\* read unless the component is uninitialized or the index is out of range
GetTemperatureCall(read) ==
    /\ io_call' = IoRecord("get_temperature", "temp_sensor",
                           IF IsNaN(GetTemperature(read)) THEN "NaN"
                           ELSE "float",
                           IF /\ IsComponentInitialized("temp_sensor")
                              /\ read.kind # "missing" THEN 1 ELSE 0)
    /\ initialized' = FlagsAfterError("temp_sensor", read.kind = "raise")
    /\ UNCHANGED <<sched_vars, pid_vars, pump_vars, od_vars,
                   stirrer, init_components, fieldnames, cycle, ctl_vars>>

\* read_voltage(bioreactor, channel_name) (io.py:260-289)
ReadVoltageCall(channel_name, hw) ==
    /\ io_call' =
          IF ~IsComponentInitialized("optical_density")
          THEN IoRecord("read_voltage", "optical_density", "None", 0)
          ELSE IF channel_name \notin OdChannels
          THEN IoRecord("read_voltage", "optical_density", "None", 0)
          ELSE IoRecord("read_voltage", "optical_density",
                        IF hw = "ok" THEN "float" ELSE "None", 1)
    /\ UNCHANGED <<sched_vars, initialized, pid_vars, pump_vars, od_vars,
                   stirrer, init_components, fieldnames, cycle, ctl_vars>>

\* read_co2(bioreactor) (io.py:984-1030) with _read_co2_sensair_k33
\* (io.py:800-874)
ReadCo2Call(hw) ==
    /\ io_call' =
          IF ~IsComponentInitialized("co2_sensor")
          THEN IoRecord("read_co2", "co2_sensor", "None", 0)
          ELSE IoRecord("read_co2", "co2_sensor",
                        IF hw = "ok" THEN "int" ELSE "None", 1)
    /\ UNCHANGED <<sched_vars, initialized, pid_vars, pump_vars, od_vars,
                   stirrer, init_components, fieldnames, cycle, ctl_vars>>

\* read_o2(bioreactor) (io.py:956-981) with _read_o2_atlas (io.py:915-953)
ReadO2Call(hw) ==
    /\ io_call' =
          IF ~IsComponentInitialized("o2_sensor")
          THEN IoRecord("read_o2", "o2_sensor", "None", 0)
          ELSE IoRecord("read_o2", "o2_sensor",
                        IF hw = "ok" THEN "float" ELSE "None", 1)
    /\ UNCHANGED <<sched_vars, initialized, pid_vars, pump_vars, od_vars,
                   stirrer, init_components, fieldnames, cycle, ctl_vars>>

\* set_led(bioreactor, power) (io.py:292-315)
SetLedCall(power, hw) ==
    /\ od_call.pc # "led_on"
    /\ led' = SetLed(led, power, hw).power
    /\ io_call' = IoRecord("set_led", "led",
                           IF SetLed(led, power, hw).ok THEN "True"
                           ELSE "False",
                           IF IsComponentInitialized("led") THEN 1 ELSE 0)
    /\ UNCHANGED <<sched_vars, initialized, pid_vars, pump_vars, ring_light,
                   od_call, stirrer, init_components, fieldnames, cycle, ctl_vars>>

\* set_ring_light(bioreactor, color) (io.py:318-342), on any reactor
SetRingLightCall(color, hw) ==
    /\ od_call.pc # "led_on"
    /\ ring_light' = IF IsComponentInitialized("ring_light")
                     THEN RingSetColor(ring_light, color, hw)
                     ELSE ring_light
    /\ io_call' = IoRecord("set_ring_light", "ring_light",
                           IF IsComponentInitialized("ring_light") /\ hw = "ok"
                           THEN "True" ELSE "False",
                           IF IsComponentInitialized("ring_light")
                           THEN 1 ELSE 0)
    /\ UNCHANGED <<sched_vars, initialized, pid_vars, pump_vars, led, od_call,
                   stirrer, init_components, fieldnames, cycle, ctl_vars>>

\* set_peltier_power(bioreactor, duty_cycle, forward) (io.py:577-606)
SetPeltierPowerCall(duty_cycle, forward, hw) ==
    /\ peltier' = SetPeltierPower(peltier, duty_cycle, forward, hw).drv
    /\ io_call' =
          IoRecord("set_peltier_power", "peltier_driver",
                   IF SetPeltierPower(peltier, duty_cycle, forward, hw).entry.ok
                   THEN "True" ELSE "False",
                   IF SetPeltierPower(peltier, duty_cycle, forward,
                                      hw).entry.driver = "none"
                   THEN 0 ELSE 1)
    /\ UNCHANGED <<sched_vars, initialized, temp_integral, temp_last_error,
                   temp_last_time, temp_last_derivative, pid_cfg, pid_calls,
                   pid_call, pid_log, pump_vars, od_vars, stirrer,
                   init_components, fieldnames, cycle, ctl_vars>>

\* set_stirrer_speed(bioreactor, duty_cycle) (io.py:625-640) with
\* StirrerDriver.set_speed (io.py:84-104)
SetStirrerSpeedCall(duty_cycle, hw) ==
    /\ stirrer' = IF IsComponentInitialized("stirrer") /\ hw = "ok"
                  THEN Max(0, Min(100, duty_cycle)) ELSE stirrer
    /\ io_call' = IoRecord("set_stirrer_speed", "stirrer",
                           IF IsComponentInitialized("stirrer") /\ hw = "ok"
                           THEN "True" ELSE "False",
                           IF IsComponentInitialized("stirrer") THEN 1 ELSE 0)
    /\ UNCHANGED <<sched_vars, initialized, pid_vars, pump_vars, od_vars,
                   init_components, fieldnames, cycle, ctl_vars>>

\* the reactor after construction: the pumps that init_pumps configured
\* (components.py:706-737) and the stirrer at its default duty
\* (components.py:273-299)
IoInit ==
    /\ SchedIdle
    /\ PidIdle
    /\ pid_cfg = PidConfig(12, 1, 0, 70)
    /\ OdIdle
    /\ initialized \in IoSetups
    /\ pumps = IF initialized["pumps"] THEN (Inflow :> NewPump) ELSE <<>>
    /\ pump_configs = IF initialized["pumps"]
                      THEN (Inflow :> PumpConfig("forward", 100)) ELSE <<>>
    /\ pump_calls = 0
    /\ pump_call = NoPumpCall
    /\ pump_log = EmptyPumpLog
    /\ stirrer = IF initialized["stirrer"] THEN 30 ELSE 0
    /\ io_call = NoIoCall
    /\ init_components = [c \in Components |-> TRUE]
    /\ fieldnames = Fieldnames(init_components)
    /\ cycle = NoCycle
    /\ CtlIdle

\* the calls of a behaviour are bounded
WithinBudget == CallsMade < MaxIoCalls

IoNext ==
    \/ \E read \in SensorReads \cup {NoRead} :
          WithinBudget /\ GetTemperatureCall(read)
    \/ \E ch \in {"Trx", "Sct"}, hw \in Hw :
          WithinBudget /\ ReadVoltageCall(ch, hw)
    \/ \E hw \in Hw : WithinBudget /\ ReadCo2Call(hw)
    \/ \E hw \in Hw : WithinBudget /\ ReadO2Call(hw)
    \/ \E hw \in Hw : WithinBudget /\ SetLedCall(50, hw)
    \/ \E hw \in Hw : WithinBudget /\ SetRingLightCall(<<10, 20, 30>>, hw)
    \/ \E hw \in Hw : WithinBudget /\ SetPeltierPowerCall(Flt(50), "heat", hw)
    \/ \E hw \in Hw : WithinBudget /\ SetStirrerSpeedCall(150, hw)
    \/ \E n \in {Inflow, Waste}, r \in {Flt(-1), F(1, 2)}, f \in {0, 1} :
          WithinBudget /\ ChangePumpCall(n, r, <<>>, f)
    \/ \E d \in OdDurations, led_hw \in Hw, ring_hw \in Hw :
          /\ WithinBudget
          /\ od_call.pc = "idle"
          /\ MeasureOdCall(50, d, "all", led_hw, ring_hw)
    \/ \E plan \in ReadPlans : OdSample(plan)
    \/ \E led_hw \in Hw, ring_hw \in Hw : OdFinish(led_hw, ring_hw)

SpecIO == IoInit /\ [][IoNext]_vars

(***************************************************************************)
(* measure_and_record_sensors (utils.py:218-459), called with the default  *)
(* led_power and averaging_duration.  A plan says what the hardware does   *)
(* in one cycle: the temperature read, the sources (OD channels, eyespy    *)
(* boards, "co2") whose every read fails, the voltage v and raw value the  *)
(* others give, and whether the LED driver and the CSV writer work.  The   *)
(* measure_od call inside the cycle is taken in one step, with every pass  *)
(* of its sampling loop reading the same.                                  *)
(***************************************************************************)
MaxCycles == 2   \* measure_and_record_sensors is called at most this often

CyclePlans ==
    [read : {[kind |-> "value", value |-> Flt(27)],
             [kind |-> "raise", value |-> NaN]},
     v : {3},
     failing : { {}, {"Trx"}, {"eyespy1"}, {"co2"}, OdChannels,
                 OdChannels \cup EyespyBoards \cup {"co2"} },
     led_hw : Hw,
     writer : Hw]

\* led_initialized and (od_initialized or eyespy_initialized) (utils.py:271)
LedPath ==
    /\ IsComponentInitialized("led")
    /\ \/ IsComponentInitialized("optical_density")
       \/ IsComponentInitialized("eyespy_adc")

\* the readings measure_od collects in two passes of its loop (io.py:443-463)
CycleReadings(plan) ==
    [src \in ChannelsToMeasure("all") \cup BoardsToMeasure |->
        ReadVoltage(plan, src) \o ReadVoltage(plan, src)]

\* a measure_od that gives up when any of its sources fails
MeasureOdAllOrNothing(plan) ==
    IF ~SetLed(led, 30, plan.led_hw).ok \/ plan.failing # {}
    THEN [kind |-> "None", values |-> {}]
    ELSE OdResult("all", CycleReadings(plan))

\* measure_od(bioreactor, led_power=30.0, averaging_duration=0.5,
\* channel_name='all') as called at utils.py:273 (io.py:423-520)
MeasureOdAll(plan) ==
    IF ~SetLed(led, 30, plan.led_hw).ok
    THEN [kind |-> "None", values |-> {}]
    ELSE OdResult("all", CycleReadings(plan))

\* the LED after that measure_od call (io.py:434-466)
LedAfterMeasureOd(plan) ==
    IF SetLed(led, 30, plan.led_hw).ok
    THEN LedOff(SetLed(led, 30, plan.led_hw).power, plan.led_hw)
    ELSE led

\* the ring light after that measure_od call: dodged, and restored unless
\* the LED could not be switched on (io.py:423-438, 468-475)
RingAfterMeasureOd(plan) ==
    IF ~IsComponentInitialized("ring_light") THEN ring_light
    ELSE IF ~SetLed(led, 30, plan.led_hw).ok THEN RingOff(ring_light, "ok")
    ELSE RestoreRingLight(RingOff(ring_light, "ok"), ring_light.is_on,
                          ring_light.color, "ok")

\* od_results.get(name, None), with NaN for None (utils.py:279-283, 292-302)
OdGet(res, name) ==
    IF \E pair \in res.values : pair[1] = name
    THEN (CHOOSE pair \in res.values : pair[1] = name)[2]
    ELSE NaN

\* sensor_data[f"od_{ch}"] (utils.py:271-325)
OdValue(plan, ch) ==
    IF LedPath
    THEN IF IsComponentInitialized("optical_density")
         THEN OdGet(MeasureOdAll(plan), ch) ELSE NaN
    ELSE IF /\ IsComponentInitialized("optical_density")
            /\ ch \notin plan.failing
         THEN Flt(plan.v) ELSE NaN

\* sensor_data[f"eyespy_{board}_voltage"] (utils.py:290-304, 329-343)
EyespyVoltage(plan, board) ==
    IF IsComponentInitialized("led")
    THEN OdGet(MeasureOdAll(plan), board)
    ELSE IF board \in plan.failing THEN NaN ELSE Flt(plan.v)

\* sensor_data[f"eyespy_{board}_raw"]: read after measure_od if that gave a
\* voltage, or by read_all_eyespy_boards (utils.py:296-304, 329-343)
EyespyRaw(plan, board) ==
    IF IsComponentInitialized("led") /\ IsNaN(OdGet(MeasureOdAll(plan), board))
    THEN NaN
    ELSE IF board \in plan.failing THEN NaN ELSE Flt(100 * plan.v)

\* sensor_data['co2'] (utils.py:345-354)
Co2Value(plan) ==
    IF IsComponentInitialized("co2_sensor") /\ "co2" \notin plan.failing
    THEN Flt(10 * plan.v) ELSE NaN

\* the sensor_data dictionary (utils.py:256-354)
SensorData(plan) ==
    ("time" :> Flt(now))
    @@ ("temperature" :> GetTemperature(plan.read))
    @@ [k \in { PlotKey[ch] : ch \in OdChannels } |->
           OdValue(plan, CHOOSE ch \in OdChannels : PlotKey[ch] = k)]
    @@ [k \in { VoltageKey[b] : b \in BoardsToMeasure } |->
           EyespyVoltage(plan, CHOOSE b \in EyespyBoards : VoltageKey[b] = k)]
    @@ [k \in { RawKey[b] : b \in BoardsToMeasure } |->
           EyespyRaw(plan, CHOOSE b \in EyespyBoards : RawKey[b] = k)]
    @@ ("co2" :> Co2Value(plan))

\* csv_row (utils.py:357-412): the label of each value and the value
CsvRow(plan) ==
    ("time" :> Flt(now))
    @@ ("temperature_C" :> GetTemperature(plan.read))
    @@ [l \in { OdLabel[ch] : ch \in OdChannels } |->
           OdValue(plan, CHOOSE ch \in OdChannels : OdLabel[ch] = l)]
    @@ [l \in { VoltageLabel[b] : b \in BoardsToMeasure } |->
           EyespyVoltage(plan,
                         CHOOSE b \in EyespyBoards : VoltageLabel[b] = l)]
    @@ [l \in { RawLabel[b] : b \in BoardsToMeasure } |->
           EyespyRaw(plan, CHOOSE b \in EyespyBoards : RawLabel[b] = l)]
    @@ [l \in (IF IsComponentInitialized("co2_sensor")
               THEN {IF init_components["co2_sensor"] THEN "CO2_ppm"
                     ELSE "CO2_ppm_x10"}
               ELSE {}) |-> Co2Value(plan)]

\* filtered_row = {k: v for k, v in csv_row.items() if k in fieldnames}
\* (utils.py:416-417)
FilteredRow(row) == [l \in DOMAIN row \cap fieldnames |-> row[l]]

\* the sources whose hardware was read in the cycle
SourcesRead(plan) ==
    (IF IsComponentInitialized("temp_sensor") THEN {"temperature"} ELSE {})
    \cup (IF LedPath /\ ~SetLed(led, 30, plan.led_hw).ok THEN {}
          ELSE ChannelsToMeasure("all") \cup BoardsToMeasure)
    \cup (IF IsComponentInitialized("co2_sensor") THEN {"co2"} ELSE {})

\* a job calls measure_and_record_sensors.  The row is handed to
\* writer.writerow inside try / except Exception, so a writer that raises
\* is only logged (utils.py:414-424).
MeasureAndRecordSensors(plan) ==
    /\ cycle.rows < MaxCycles
    /\ cycle' = [pc |-> "returned",
                 failing |-> plan.failing
                    \cup (IF plan.read.kind = "raise" THEN {"temperature"}
                          ELSE {}),
                 led_ok |-> SetLed(led, 30, plan.led_hw).ok,
                 reads |-> SourcesRead(plan),
                 sensor_data |-> SensorData(plan),
                 row |-> FilteredRow(CsvRow(plan)),
                 rows |-> cycle.rows + 1,
                 write_ok |-> plan.writer = "ok",
                 raised |-> "none"]
    /\ led' = IF LedPath THEN LedAfterMeasureOd(plan) ELSE led
    /\ ring_light' = IF LedPath THEN RingAfterMeasureOd(plan) ELSE ring_light
    /\ UNCHANGED <<sched_vars, initialized, pid_vars, pump_vars, od_call,
                   stirrer, io_call, init_components, fieldnames,
                   ctl_vars>>

\* the components the configuration enables, and those of them that
\* initialized (bioreactor.py:64-66, 196-220)
RecordSetups ==
    { [enabled |-> [c \in Components |-> c \in e],
       initialized |-> [c \in Components |-> c \in i]] :
        <<e, i>> \in
          { <<Components, Components>>,
            <<Components, Components \ {"eyespy_adc", "co2_sensor"}>>,
            <<{"temp_sensor", "peltier_driver", "stirrer", "led",
               "ring_light", "optical_density"},
              {"temp_sensor", "peltier_driver", "stirrer", "led",
               "ring_light", "optical_density"}>>,
            <<{"temp_sensor", "optical_density", "eyespy_adc", "co2_sensor"},
              {"temp_sensor", "optical_density", "eyespy_adc", "co2_sensor"}>>,
            <<{"temp_sensor", "led", "eyespy_adc", "co2_sensor"},
              {"led", "eyespy_adc", "co2_sensor"}>> } }

RecordInit ==
    /\ SchedIdle
    /\ PidIdle
    /\ pid_cfg = PidConfig(12, 1, 0, 70)
    /\ PumpIdle
    /\ OdIdle
    /\ \E setup \in RecordSetups :
          /\ initialized = setup.initialized
          /\ init_components = setup.enabled
    /\ fieldnames = Fieldnames(init_components)
    /\ stirrer = IF initialized["stirrer"] THEN 30 ELSE 0
    /\ io_call = NoIoCall
    /\ cycle = NoCycle
    /\ CtlIdle

RecordNext == \E plan \in CyclePlans : MeasureAndRecordSensors(plan)

SpecRecord == RecordInit /\ [][RecordNext]_vars

(***************************************************************************)
(* The operations that jobs are made of, called in any order on one        *)
(* reactor: get_temperature, measure_od, measure_and_record_sensors,       *)
(* temperature_pid_controller, ring_light_cycle, balanced_flow and         *)
(* change_pump, with reads and actuator commands that fail.                *)
(***************************************************************************)
MaxOps == 2   \* the operations called in one behaviour

\* the components whose initialization succeeded
OpsSetups ==
    { [c \in Components |-> c \in on] :
        on \in { Components, Components \ {"eyespy_adc", "co2_sensor"} } }

\* the number of operations called so far
OpsMade == CallsMade + pid_calls + ring_cycle.calls + cycle.rows

OpsWithinBudget == OpsMade < MaxOps

\* the calls of temperature_pid_controller that a lane makes: elapsed only
OpsPidInputs ==
    { a \in PidInputs : /\ a.current_temp = <<>>
                        /\ a.dt = <<>>
                        /\ a.elapsed # <<>> }

OpsInit ==
    /\ SchedIdle
    /\ PidIdle
    /\ pid_cfg = PidConfig(12, 1, 0, 70)
    /\ OdIdle
    /\ initialized \in OpsSetups
    /\ pumps = (Inflow :> NewPump) @@ (Outflow :> NewPump)
    /\ pump_configs = (Inflow :> PumpConfig("forward", 100))
                         @@ (Outflow :> PumpConfig("reverse", 100))
    /\ pump_calls = 0
    /\ pump_call = NoPumpCall
    /\ pump_log = EmptyPumpLog
    /\ stirrer = 30
    /\ io_call = NoIoCall
    /\ init_components = [c \in Components |-> TRUE]
    /\ fieldnames = Fieldnames(init_components)
    /\ cycle = NoCycle
    /\ converse = NoResolution
    /\ ring_cycle = [NoRingCycle EXCEPT !.on_time = 1, !.off_time = 1]
    /\ out_file = "open"

OpsNext ==
    \/ \E read \in SensorReads \cup {NoRead} :
          OpsWithinBudget /\ GetTemperatureCall(read)
    \/ \E led_hw \in Hw, ring_hw \in Hw :
          /\ OpsWithinBudget
          /\ od_call.pc = "idle"
          /\ MeasureOdCall(50, <<1>>, "Trx", led_hw, ring_hw)
    \/ \E plan \in ReadPlans : OdSample(plan)
    \/ \E led_hw \in Hw, ring_hw \in Hw : OdFinish(led_hw, ring_hw)
    \/ \E plan \in { p \in CyclePlans : p.failing \in {{}, OdChannels} } :
          OpsWithinBudget /\ MeasureAndRecordSensors(plan)
    \/ \E in \in OpsPidInputs : OpsWithinBudget /\ PidStep(in)
    \/ \E elapsed \in {<<0>>, <<1>>}, hw \in Hw :
          OpsWithinBudget /\ RingLightCycleCall(elapsed, hw)
    \/ \E n \in {Inflow, Waste}, r \in {Flt(-1), Flt(2)},
          d \in {<<>>, <<1>>}, f \in FaultPoints :
          OpsWithinBudget /\ BalancedFlowCall(n, r, d, f)
    \/ \E f \in FaultPoints : BalancedFlowWake(f)
    \/ PumpTick
    \/ \E n \in {Inflow, Waste}, r \in {Flt(-1), Flt(2)},
          f \in FaultPoints \ {MaxFaultAt} :
          OpsWithinBudget /\ ChangePumpCall(n, r, <<>>, f)

SpecOps == OpsInit /\ [][OpsNext]_vars

(***************************************************************************)
(* The life of a reactor: run() with a temperature_pid_controller job,     *)
(* stop_all(), run() again, and finish().  The calls are made by the main  *)
(* thread at any moment of the lanes' progress.                            *)
(***************************************************************************)
MaxRuns == 2        \* run() is called at most this often
MaxLifeCalls == 2   \* the lanes call temperature_pid_controller this often

\* the PID job: every freq seconds, with no end
LifeJobs ==
    { j \in Jobs : /\ ~j.throws /\ j.cost = 0 /\ ~j.cont /\ j.forever
                   /\ j.freq = MaxFreq }

\* lines 274-275 for a temperature_pid_controller job:
\* func(self, elapsed=global_elapsed), which returns before the clock moves
LanePidCall(i, read, hw) ==
    /\ lanes[i].pc = "call"
    /\ pid_calls < MaxLifeCalls
    /\ lanes' = [lanes EXCEPT ![i] =
                    Returned([@ EXCEPT !.invs =
                                          Append(@, now - lanes[i].start)])]
    /\ PidUpdate([current_temp |-> <<>>, dt |-> <<>>,
                  elapsed |-> <<Flt(now - lanes[i].start)>>,
                  read |-> read, hw |-> hw])
    /\ UNCHANGED <<now, stop_event, stop_calls, first_stop, initialized,
                   pid_cfg, pump_vars, od_vars, rec_vars>>

\* stop_all_pumps (io.py:1112-1129): change_pump(name, 0.0) on each pump,
\* which de-energizes it (io.py:1084-1086); a command that raises is logged
StopAllPumps(ps, hw) ==
    IF ~IsComponentInitialized("pumps") THEN ps
    ELSE [n \in DOMAIN ps |->
             IF hw = "ok" THEN TicApply(ps[n], "deenergize", 0) ELSE ps[n]]

\* Bioreactor.finish (bioreactor.py:300-345): stop_all(), close the data
\* file, stop the peltier and the stirrer, turn the ring light off and stop
\* the pumps; the threads are not joined
Finish(hw) ==
    /\ lanes # <<>>
    /\ out_file = "open"
    /\ stop_event' = StopEventSet
    /\ stop_calls' = stop_calls + 1
    /\ first_stop' = IF first_stop = -1 THEN now ELSE first_stop
    /\ out_file' = "closed"
    /\ peltier' = IF IsComponentInitialized("peltier_driver")
                  THEN PeltierStop(peltier, hw) ELSE peltier
    /\ stirrer' = IF IsComponentInitialized("stirrer") /\ hw = "ok"
                  THEN 0 ELSE stirrer
    /\ ring_light' = IF IsComponentInitialized("ring_light")
                     THEN RingOff(ring_light, hw) ELSE ring_light
    /\ pumps' = StopAllPumps(pumps, hw)
    /\ UNCHANGED <<now, lanes, initialized, temp_integral, temp_last_error,
                   temp_last_time, temp_last_derivative, pid_cfg, pid_calls,
                   pid_call, pid_log, pump_configs, pump_calls, pump_call,
                   pump_log, led, od_call, io_call, init_components,
                   fieldnames, cycle, converse, ring_cycle>>

LifeInit ==
    /\ SchedIdle
    /\ PidIdle
    /\ pid_cfg = PidConfig(12, 1, 0, 70)
    /\ OdIdle
    /\ initialized = [c \in Components |-> TRUE]
    /\ pumps = (Inflow :> NewPump) @@ (Outflow :> NewPump)
    /\ pump_configs = (Inflow :> PumpConfig("forward", 100))
                         @@ (Outflow :> PumpConfig("reverse", 100))
    /\ pump_calls = 0
    /\ pump_call = NoPumpCall
    /\ pump_log = EmptyPumpLog
    /\ stirrer = 30
    /\ io_call = NoIoCall
    /\ init_components = [c \in Components |-> TRUE]
    /\ fieldnames = Fieldnames(init_components)
    /\ cycle = NoCycle
    /\ CtlIdle

\* run() is called on a new reactor, or again after a stop_all()
LifeNext ==
    \/ \E j \in LifeJobs :
          /\ Len(lanes) < MaxRuns
          /\ out_file = "open"
          /\ lanes = <<>> \/ stop_event
          /\ Run(<<j>>)
    \/ out_file = "open" /\ StopAll
    \/ \E hw \in Hw : Finish(hw)
    \/ Tick
    \/ \E i \in LaneIds : LaneCheck(i)
    \/ \E i \in LaneIds, read \in SensorReads, hw \in Hw :
          LanePidCall(i, read, hw)

SpecLife == LifeInit /\ [][LifeNext]_vars

(***************************************************************************)
(* The converse-name resolution of balanced_flow on its own                *)
(* (utils.py:720-734): balanced_flow is called with a pump name, and then  *)
(* with the converse name it resolved.                                     *)
(***************************************************************************)
MaxBaseLen == 5   \* the longest base of a pump name

\* the part of a pump name before its suffix
PumpBases ==
    { b \in { <<>>, <<"a">>, <<"i", "n">>, <<"o", "u", "t">>,
              <<"m", "a", "i", "n">>, <<"a", "_", "b">>,
              <<"a", "_", "i", "n">>, <<"s", "c", "o", "u", "t">>,
              <<"b", "_", "o", "u", "t">> } : Len(b) <= MaxBaseLen }

PumpSuffixes == {SufIn, SufOut, SufInflow, SufOutflow, <<"_", "x">>}

\* the pump names balanced_flow is called with
ConverseInputs ==
    {Inflow, Outflow, Waste}
    \cup { b \o suf : b \in PumpBases, suf \in PumpSuffixes }

\* balanced_flow(bioreactor, pump_name, ...) resolves the converse name
ResolveConverse(pump_name) ==
    /\ converse.pc = "idle"
    /\ converse' = [converse EXCEPT !.pc = "resolved",
                                    !.pump_name = pump_name,
                                    !.converse_name = ConverseName(pump_name)]
    /\ UNCHANGED <<sched_vars, initialized, pid_vars, pump_vars, od_vars,
                   stirrer, io_call, init_components, fieldnames, cycle,
                   ring_cycle, out_file>>

\* balanced_flow(bioreactor, converse_name, ...): the converse of the
\* converse
ResolveBack ==
    /\ converse.pc = "resolved"
    /\ converse.converse_name # <<>>
    /\ converse' = [converse EXCEPT
                       !.pc = "back",
                       !.back = ConverseName(converse.converse_name[1])]
    /\ UNCHANGED <<sched_vars, initialized, pid_vars, pump_vars, od_vars,
                   stirrer, io_call, init_components, fieldnames, cycle,
                   ring_cycle, out_file>>

\* the next pair of calls
ResolveAgain ==
    /\ converse.pc \in {"resolved", "back"}
    /\ converse' = [converse EXCEPT !.pc = "idle"]
    /\ UNCHANGED <<sched_vars, initialized, pid_vars, pump_vars, od_vars,
                   stirrer, io_call, init_components, fieldnames, cycle,
                   ring_cycle, out_file>>

ConverseInit ==
    /\ SchedIdle
    /\ initialized = [c \in Components |-> FALSE]
    /\ PidIdle
    /\ pid_cfg = PidConfig(12, 1, 0, 70)
    /\ PumpIdle
    /\ OdIdle
    /\ RecIdle

ConverseNext ==
    \/ \E n \in ConverseInputs : ResolveConverse(n)
    \/ ResolveBack
    \/ ResolveAgain

SpecConverse == ConverseInit /\ [][ConverseNext]_vars

(***************************************************************************)
(* Scheduler properties.                                                   *)
(***************************************************************************)
\* the absolute time of lane l's latest invocation
LastInvocation(l) == l.start + l.invs[Len(l.invs)]

\* the period a lane waits between two invocations (0 for a continuous job)
PeriodOf(l) == IF l.cont THEN 0 ELSE l.freq

\* the duration of lane l had elapsed when it left its loop
RanToDuration(l) ==
    l.pc = "done" /\ ~l.forever /\ l.ended - l.start >= l.dur

C2StopIdempotent ==
    first_stop # -1 =>
        /\ stop_event
        /\ \A i \in LaneIds :
              /\ lanes[i].t0 <= first_stop
              /\ lanes[i].invs # <<>>
                    => LastInvocation(lanes[i]) <= first_stop + PeriodOf(lanes[i])

\* C2 witness: stop_all() was called twice, time has passed since the first
\* call, and an indefinite lane has left its loop
C2Witness ==
    /\ stop_calls >= 2
    /\ first_stop # -1 /\ now > first_stop
    /\ \A i \in LaneIds : lanes[i].pc = "done"
    /\ \E i \in LaneIds : lanes[i].forever /\ lanes[i].invs # <<>>

\* the invocation offsets 0, p, 2p, ... below d
OnSchedule(l) ==
    l.invs = [k \in 1..CeilDiv(l.dur, l.freq) |-> (k - 1) * l.freq]

\* C3 (as amended): a job with period p and finite duration d whose action
\* takes no time, and whose lane runs until its duration has elapsed, is
\* invoked exactly ceil(d/p) times, at offsets 0, p, 2p, ..., and its lane
\* leaves the loop at offset p * ceil(d/p): at d when p divides d, later
\* otherwise.
C3InvocationCount ==
    \A i \in LaneIds :
        (RanToDuration(lanes[i]) /\ ~lanes[i].cont /\ lanes[i].cost = 0)
            => /\ OnSchedule(lanes[i])
               /\ lanes[i].ended - lanes[i].start
                     = lanes[i].freq * CeilDiv(lanes[i].dur, lanes[i].freq)

\* C3 witness: period 2, duration 6: invoked at 0, 2 and 4, ended at 6
C3Witness ==
    \E i \in LaneIds :
        /\ RanToDuration(lanes[i]) /\ ~lanes[i].cont /\ lanes[i].cost = 0
        /\ lanes[i].freq = 2 /\ lanes[i].dur = 6
        /\ lanes[i].invs = <<0, 2, 4>>
        /\ lanes[i].ended - lanes[i].start = 6

\* C3 as stated: ... and the lane has terminated by offset d
C3TerminatedByDuration ==
    \A i \in LaneIds :
        (RanToDuration(lanes[i]) /\ ~lanes[i].cont /\ lanes[i].cost = 0)
            => /\ OnSchedule(lanes[i])
               /\ lanes[i].ended - lanes[i].start <= lanes[i].dur

\* the invocations of lane l so far are sequential: all but a running last
\* one have returned, each returned exactly cost after it started, and each
\* started no earlier than the one before it returned
Sequential(l) ==
    /\ Len(l.rets) = (IF l.pc = "running" THEN Len(l.invs) - 1
                                          ELSE Len(l.invs))
    /\ \A k \in 1..Len(l.rets) : l.rets[k] = l.invs[k] + l.cost
    /\ \A k \in 2..Len(l.invs) : l.invs[k] >= l.rets[k - 1]

\* an action that runs longer than the period is invoked again at the
\* instant it returned
BackToBack(l) ==
    (~l.cont /\ l.cost > l.freq)
        => \A k \in 2..Len(l.invs) : l.invs[k] = l.rets[k - 1]

\* C16: within one lane invocations never overlap: an invocation starts only
\* after the lane's previous invocation has returned, and when the action
\* runs longer than the period the next invocation starts immediately on
\* return, with no sleep and no preemption.
C16NoOverlap ==
    \A i \in LaneIds : Sequential(lanes[i]) /\ BackToBack(lanes[i])

\* C16 witness: an action that takes longer than its period has been invoked
\* a second time, at the instant its first invocation returned
C16Witness ==
    \E i \in LaneIds :
       /\ ~lanes[i].cont
       /\ lanes[i].cost > lanes[i].freq
       /\ Len(lanes[i].invs) >= 2
       /\ lanes[i].invs[2] = lanes[i].rets[1]
       /\ lanes[i].rets[1] = lanes[i].cost

(***************************************************************************)
(* PID controller properties.                                              *)
(***************************************************************************)
\* a step of temperature_pid_controller
IsPidStep == pid_calls' = pid_calls + 1

\* the latest call commanded the peltier with set_peltier_power
PeltierCommanded ==
    pid_log # <<>> /\ pid_log[1].op = "set_peltier_power"

\* C4: in a call whose current_temp is NaN, _temp_integral and
\* _temp_last_error keep their values and no actuator call is made (neither
\* set_peltier_power nor stop_peltier), so the driver is left as it was.
C4NaNSkip ==
    [][(IsPidStep /\ IsNaN(pid_call'.current_temp))
          => /\ temp_integral' = temp_integral
             /\ temp_last_error' = temp_last_error
             /\ pid_log' = <<>>
             /\ peltier' = peltier]_vars

\* C4 witness: a NaN call after a call that updated the integral and
\* commanded the peltier
C4Witness ==
    /\ pid_calls >= 2
    /\ IsNaN(pid_call.current_temp)
    /\ initialized["peltier_driver"]
    /\ temp_integral # Zero
    /\ peltier.duty # Zero

\* the PID state as created by the first call
PidFresh ==
    /\ temp_integral = Zero
    /\ temp_last_error = Zero
    /\ temp_last_derivative = Zero

NonNegativeGains ==
    /\ FLe(Zero, pid_cfg.kp) /\ FLe(Zero, pid_cfg.ki) /\ FLe(Zero, pid_cfg.kd)
    /\ FLe(Zero, pid_cfg.alpha) /\ FLe(pid_cfg.alpha, Flt(1))

\* C5 (as amended): in every step that commands the peltier the direction is
\* heat if the PID output kp*error + ki*integral + kd*derivative is positive
\* and cool otherwise; in a step from the freshly created PID state with
\* non-negative gains and dt > 0 that is heat for setpoint > current_temp and
\* cool for setpoint < current_temp.
C5Direction ==
    [][(IsPidStep /\ PeltierCommanded')
          => /\ (pid_log'[1].direction = "heat") <=> FLt(Zero, pid_call'.output)
             /\ (pid_log'[1].direction = "cool") <=> ~FLt(Zero, pid_call'.output)
             /\ (PidFresh /\ NonNegativeGains /\ FLt(Zero, pid_call'.dt))
                   => /\ FLt(pid_call'.current_temp, pid_cfg.setpoint)
                            => pid_log'[1].direction = "heat"
                      /\ FLt(pid_cfg.setpoint, pid_call'.current_temp)
                            => pid_log'[1].direction = "cool"]_vars

\* C5 witness: the first call, with the temperature above the setpoint,
\* commands the peltier to cool
C5Witness ==
    /\ pid_calls = 1
    /\ PeltierCommanded
    /\ FLt(pid_cfg.setpoint, pid_call.current_temp)
    /\ pid_log[1].direction = "cool"

\* C5 as stated: whatever steps came before, a step that commands the peltier
\* heats if setpoint > current_temp and cools if setpoint < current_temp
C5DirectionFollowsError ==
    PeltierCommanded
        => /\ FLt(pid_call.current_temp, pid_cfg.setpoint)
                 => pid_log[1].direction = "heat"
           /\ FLt(pid_cfg.setpoint, pid_call.current_temp)
                 => pid_log[1].direction = "cool"

\* C6: the duty passed to set_peltier_power, and the duty the driver then
\* applies, lie in [0, max_duty].
C6DutyClamped ==
    PeltierCommanded
        => /\ FLe(Zero, pid_log[1].duty)
           /\ FLe(pid_log[1].duty, pid_cfg.max_duty)
           /\ pid_log[1].ok
                 => /\ FLe(Zero, peltier.duty)
                    /\ FLe(peltier.duty, pid_cfg.max_duty)

\* C6 witness: a PID output beyond max_duty is commanded as max_duty
C6Witness ==
    /\ PeltierCommanded
    /\ pid_log[1].ok
    /\ FLt(pid_cfg.max_duty, FAbs(pid_call.output))
    /\ pid_log[1].duty = pid_cfg.max_duty

\* the latest call was a step on a valid temperature with the peltier driver
\* initialized
DrivenStep ==
    /\ pid_calls > 0
    /\ ~IsNaN(pid_call.current_temp)
    /\ IsComponentInitialized("peltier_driver")

\* C17: in every non-NaN step with the peltier driver initialized exactly one
\* actuator command is issued: set_peltier_power(duty, direction) when the
\* clamped duty is > 0 and stop_peltier otherwise; a duty of 0 is never
\* passed to set_peltier_power.
C17OneCommand ==
    DrivenStep
        => /\ Len(pid_log) = 1
           /\ IF FLt(Zero, pid_call.duty)
              THEN /\ pid_log[1].op = "set_peltier_power"
                   /\ pid_log[1].duty = pid_call.duty
                   /\ pid_log[1].direction = pid_call.direction
              ELSE pid_log[1].op = "stop_peltier"
           /\ pid_log[1].op = "set_peltier_power"
                 => FLt(Zero, pid_log[1].duty)

\* C17 witness: a step whose clamped duty is 0 stopped a peltier that the
\* step before it had switched on
C17Witness ==
    /\ DrivenStep
    /\ pid_calls = 2
    /\ pid_call.duty = Zero
    /\ pid_log = <<[op |-> "stop_peltier", duty |-> Zero, direction |-> "none",
                    driver |-> "stop", ok |-> TRUE]>>
    /\ peltier.duty = Zero
    /\ temp_integral # Zero

\* C18 as stated: with the peltier driver not initialized a step issues no
\* actuator command and leaves integral, last_error and last_derivative as
\* they were before the step.
C18NoOpWithoutDriver ==
    [][(IsPidStep /\ ~IsComponentInitialized("peltier_driver"))
          => /\ pid_log' = <<>>
             /\ peltier' = peltier
             /\ temp_integral' = temp_integral
             /\ temp_last_error' = temp_last_error
             /\ temp_last_derivative' = temp_last_derivative]_vars

(***************************************************************************)
(* Pump properties.                                                        *)
(***************************************************************************)
\* the latest call was a balanced_flow that has returned
BalancedFlowReturned ==
    pump_call.fn = "balanced_flow" /\ pump_call.pc = "returned"

\* the Tic commands issued by the k-th change_pump call of the latest call
CommandsOf(k) == { i \in DOMAIN pump_log.cmds : pump_log.cmds[i].call = k }

\* C7 as stated, for a reactor whose inflow/outflow pair is configured:
\* balanced_flow with a negative ml_per_sec raises a validation error to its
\* caller and issues no Tic command.
C7NegativeRateRaises ==
    (/\ BalancedFlowReturned
     /\ pump_call.path = "pair"
     /\ FLt(pump_call.ml_per_sec, Zero))
        => /\ pump_call.raised = "ValueError"
           /\ pump_log.cmds = <<>>

\* C8 as stated: balanced_flow with a duration d > 0 on a configured
\* inflow/outflow pair returns no earlier than d after it was called, and
\* when it returns neither pump of the pair is running.
C8StoppedAfterDuration ==
    (/\ BalancedFlowReturned
     /\ pump_call.path = "pair"
     /\ Timed(pump_call.duration))
        => /\ pump_call.returned_at
                 >= pump_call.called_at + pump_call.duration[1]
           /\ ~Running(pumps[pump_call.pump_name])
           /\ ~Running(pumps[ConverseName(pump_call.pump_name)[1]])

\* C10: a change_pump call that computes velocity 0 makes exactly one Tic
\* call, deenergize, and set_target_velocity is never called with 0.
C10ZeroVelocityDeenergizes ==
    /\ \A k \in DOMAIN pump_log.calls :
          pump_log.calls[k].velocity = <<0>>
             => /\ Cardinality(CommandsOf(k)) = 1
                /\ \A i \in CommandsOf(k) : pump_log.cmds[i].cmd = "deenergize"
    /\ \A i \in DOMAIN pump_log.cmds :
          pump_log.cmds[i].cmd = "set_target_velocity"
             => pump_log.cmds[i].arg # 0

\* C10 witness: a positive flow whose quantized step rate is 0 de-energized
\* a pump that was running
C10Witness ==
    \E k \in DOMAIN pump_log.calls :
       /\ FLt(Zero, pump_log.calls[k].ml_per_sec)
       /\ pump_log.calls[k].velocity = <<0>>
       /\ \E i \in CommandsOf(k) :
             /\ pump_log.cmds[i].cmd = "deenergize"
             /\ pump_log.cmds[i].ok
       /\ ~pumps[pump_log.calls[k].pump].energized
       /\ pumps[pump_log.calls[k].pump].velocity # 0

\* the arguments of the change_pump call c are invalid: an unconfigured pump
\* name, a negative ml_per_sec, or a direction other than forward / reverse
InvalidPumpArguments(c) ==
    \/ c.pump_name \notin DOMAIN pumps
    \/ FLt(c.ml_per_sec, Zero)
    \/ (c.direction # <<>> /\ c.direction[1] \notin {"forward", "reverse"})

\* the change_pump call that just returned raised ValueError and issued no
\* Tic command
RaisedBeforeAnyCommand ==
    /\ pump_call'.raised = "ValueError"
    /\ pump_log'.cmds = <<>>
    /\ pumps' = pumps

IsChangePumpStep ==
    pump_calls' = pump_calls + 1 /\ pump_call'.fn = "change_pump"

\* C15 (as amended): on a reactor whose pumps component is initialized,
\* change_pump with a negative ml_per_sec, an unconfigured pump name, or a
\* direction other than forward / reverse raises ValueError to its caller
\* before any pump command is issued.
C15InvalidArgumentsRaise ==
    [][(/\ IsChangePumpStep
        /\ IsComponentInitialized("pumps")
        /\ InvalidPumpArguments(pump_call'))
          => RaisedBeforeAnyCommand]_vars

\* C15 witness: change_pump('inflow', 0.5, direction='up') on configured
\* pumps raised ValueError and no Tic command was issued
C15Witness ==
    /\ pump_call.fn = "change_pump"
    /\ pump_call.pump_name = Inflow
    /\ pump_call.ml_per_sec = F(1, 2)
    /\ pump_call.direction = <<"up">>
    /\ IsComponentInitialized("pumps")
    /\ pump_call.raised = "ValueError"
    /\ pump_log.cmds = <<>>

\* C15 as stated: the same on every reactor, also one whose pumps component
\* is not initialized
C15InvalidArgumentsRaiseAlways ==
    [][(IsChangePumpStep /\ InvalidPumpArguments(pump_call'))
          => RaisedBeforeAnyCommand]_vars

\* the pumps the latest call started: those it gave a non-zero target
\* velocity
StartedPumps ==
    { pump_log.cmds[i].pump : i \in
        { j \in DOMAIN pump_log.cmds :
            /\ pump_log.cmds[j].cmd = "set_target_velocity"
            /\ pump_log.cmds[j].ok
            /\ pump_log.cmds[j].arg # 0 } }

\* a pump command of the latest call raised after the call had started a pump
RaisedAfterStart ==
    \E i, j \in DOMAIN pump_log.cmds :
       /\ i < j
       /\ pump_log.cmds[i].cmd = "set_target_velocity"
       /\ pump_log.cmds[i].ok
       /\ pump_log.cmds[i].arg # 0
       /\ ~pump_log.cmds[j].ok

\* C19 as stated: if a pump command raises inside balanced_flow after that
\* call has started at least one pump, balanced_flow returns without an
\* exception and with every pump it started stopped.
C19StopsStartedPumps ==
    (BalancedFlowReturned /\ RaisedAfterStart)
        => /\ pump_call.raised = "none"
           /\ \A n \in StartedPumps : ~Running(pumps[n])

\* balanced_flow was called for a pump with no converse pump to set: the
\* name follows no convention, or the converse it resolves to is not
\* configured
NoConverse ==
    /\ pump_call.fn = "balanced_flow"
    /\ \/ ConverseName(pump_call.pump_name) = <<>>
       \/ ConverseName(pump_call.pump_name)[1] \notin DOMAIN pumps

\* C20: when the pump name matches no naming convention, or the resolved
\* converse pump is not configured, balanced_flow commands only the named
\* pump and never raises to its caller, also when the named pump is
\* unknown, the rate is invalid or the pump command fails.
C20SinglePumpNeverRaises ==
    NoConverse
        => /\ pump_call.raised = "none"
           /\ \A i \in DOMAIN pump_log.cmds :
                 pump_log.cmds[i].pump = pump_call.pump_name

\* C20 witness: 'inflow' without a configured 'outflow' was started on its
\* own, the command that should stop it raised, and the call returned
\* normally
C20Witness ==
    /\ BalancedFlowReturned
    /\ pump_call.pump_name = Inflow
    /\ pump_call.path = "converse_missing"
    /\ pump_call.raised = "none"
    /\ Len(pump_log.cmds) = 4
    /\ ~pump_log.cmds[4].ok
    /\ Running(pumps[Inflow])

(***************************************************************************)
(* measure_od properties.                                                  *)
(***************************************************************************)
\* C9 as stated: on a reactor whose ring light is initialized, whatever path
\* measure_od returns through, the ring light's colour and on/off state at
\* return equal those at entry.
C9RingLightRestored ==
    (od_call.pc = "returned" /\ IsComponentInitialized("ring_light"))
        => od_call.exit_ring = od_call.entry_ring

(***************************************************************************)
(* Properties of the flow-to-velocity conversion.                          *)
(***************************************************************************)
\* ml_per_sec * steps_per_ml of a logged change_pump call, as an exact number
ExactSteps(c) == FMul(c.ml_per_sec, Flt(pump_configs[c.pump].steps_per_ml))

\* the velocity of a logged change_pump call is, in magnitude, the multiple
\* of 8 that does not exceed ml_per_sec * steps_per_ml and is less than 8
\* below it; it is positive (or 0) for a forward pump and negative (or 0)
\* for a reverse pump; 0.004 ml/s at 10,000,000 steps/ml forward is +40000
QuantizedVelocity(c) ==
    LET v == c.velocity[1]
    IN  /\ Abs(v) % 8 = 0
        /\ FLe(Flt(Abs(v)), ExactSteps(c))
        /\ FLt(FSub(ExactSteps(c), Flt(Abs(v))), Flt(8))
        /\ pump_configs[c.pump].direction = "forward" => v = Abs(v)
        /\ pump_configs[c.pump].direction = "reverse" => v = -Abs(v)
        /\ (/\ c.ml_per_sec = F(1, 250)
            /\ pump_configs[c.pump].steps_per_ml = DefaultStepsPerMl
            /\ pump_configs[c.pump].direction = "forward") => v = 40000

\* C11 (as amended): for every ml_per_sec >= 0 and every steps_per_ml >= 0
\* the velocity change_pump commands has magnitude
\* 8*floor(ml_per_sec*steps_per_ml/8), signed by the pump's direction.
C11Quantized ==
    \A k \in DOMAIN pump_log.calls :
       (/\ pump_log.calls[k].velocity # <<>>
        /\ pump_configs[pump_log.calls[k].pump].steps_per_ml >= 0)
          => QuantizedVelocity(pump_log.calls[k])

\* C11 witness: 0.004 ml/s at 10,000,000 steps/ml forward commanded +40000
C11Witness ==
    /\ pump_call.fn = "change_pump"
    /\ pump_call.ml_per_sec = F(1, 250)
    /\ pump_configs[Inflow] = PumpConfig("forward", DefaultStepsPerMl)
    /\ pump_log.calls[1].velocity = <<40000>>
    /\ pumps[Inflow] = [energized |-> TRUE, velocity |-> 40000]

\* C11 as stated: the same for every steps_per_ml, negative ones included
C11QuantizedAnyCalibration ==
    \A k \in DOMAIN pump_log.calls :
       pump_log.calls[k].velocity # <<>>
          => QuantizedVelocity(pump_log.calls[k])

(***************************************************************************)
(* Properties of the io.py functions on uninitialized components.          *)
(***************************************************************************)
\* no driver was accessed in the step: every driver is as it was
NoDriverTouched ==
    /\ peltier' = peltier
    /\ stirrer' = stirrer
    /\ led' = led
    /\ ring_light' = ring_light
    /\ pumps' = pumps

\* the step is a call of get_temperature, read_voltage, read_co2, read_o2,
\* set_led, set_ring_light, set_peltier_power or set_stirrer_speed on an
\* uninitialized component
DisabledIoStep ==
    /\ io_call'.n = io_call.n + 1
    /\ ~initialized[io_call'.component]

\* the step is a change_pump call with the pumps uninitialized
DisabledChangePumpStep ==
    /\ pump_calls' = pump_calls + 1
    /\ pump_call'.fn = "change_pump"
    /\ ~initialized["pumps"]

\* the step is a measure_od call with the LED, or with both the optical
\* density sensor and the eyespy ADC, uninitialized
DisabledMeasureOdStep ==
    /\ od_call.pc = "idle"
    /\ od_call'.pc # "idle"
    /\ \/ ~initialized["led"]
       \/ ~initialized["optical_density"] /\ ~initialized["eyespy_adc"]

\* C12: each of get_temperature, read_voltage, read_co2, read_o2, set_led,
\* set_ring_light, set_peltier_power, set_stirrer_speed, change_pump and
\* measure_od, called when the component it uses is not initialized, raises
\* no exception, makes no driver call, and reports a disabled result (NaN,
\* None or False; change_pump returns None).
C12DisabledComponentsAreSafe ==
    [][/\ DisabledIoStep
          => /\ io_call'.raised = "none"
             /\ io_call'.driver_calls = 0
             /\ io_call'.result \in {"NaN", "None", "False"}
             /\ NoDriverTouched
       /\ DisabledChangePumpStep
          => /\ pump_call'.raised = "none"
             /\ pump_log'.cmds = <<>>
             /\ NoDriverTouched
       /\ DisabledMeasureOdStep
          => /\ od_call'.pc = "returned"
             /\ od_call'.result.kind = "None"
             /\ od_call'.readings = <<>>
             /\ NoDriverTouched]_vars

\* C12 witness: on a reactor none of whose components initialized,
\* measure_od returned None and then set_peltier_power returned False
\* without a driver call
C12Witness ==
    /\ \A c \in Components : ~initialized[c]
    /\ od_call.pc = "returned"
    /\ od_call.path = "led_not_initialized"
    /\ od_call.result.kind = "None"
    /\ io_call.fn = "set_peltier_power"
    /\ io_call.result = "False"
    /\ io_call.driver_calls = 0
    /\ io_call.raised = "none"

(***************************************************************************)
(* measure_and_record_sensors properties.                                  *)
(***************************************************************************)
\* the sensors of a cycle, the component each belongs to, and its keys in
\* sensor_data
Sources == {"temperature", "co2"} \cup OdChannels \cup EyespyBoards

ComponentOf(src) ==
    IF src = "temperature" THEN "temp_sensor"
    ELSE IF src = "co2" THEN "co2_sensor"
    ELSE IF src \in OdChannels THEN "optical_density"
    ELSE "eyespy_adc"

KeysOf(src) ==
    IF src \in {"temperature", "co2"} THEN {src}
    ELSE IF src \in OdChannels THEN {PlotKey[src]}
    ELSE {RawKey[src], VoltageKey[src]}

\* the read of src failed in the latest cycle: its own reads failed, or it
\* is measured by measure_od and the LED could not be switched on
FailedInCycle(src) ==
    \/ src \in cycle.failing
    \/ /\ src \in OdChannels \cup EyespyBoards
       /\ LedPath
       /\ ~cycle.led_ok

\* C13: in one measure_and_record_sensors cycle a failed sensor read
\* (temperature, OD / eyespy measurement, or CO2) gives NaN for that sensor
\* only: every other enabled sensor is still read and recorded with its
\* value, and a row is handed to the CSV writer.
C13FailureIsolated ==
    cycle.pc = "returned"
        => /\ cycle.raised = "none"
           /\ cycle.rows >= 1
           /\ \A src \in Sources :
                 initialized[ComponentOf(src)]
                    => IF FailedInCycle(src)
                       THEN \A k \in KeysOf(src) : IsNaN(cycle.sensor_data[k])
                       ELSE /\ src \in cycle.reads
                            /\ \A k \in KeysOf(src) :
                                  ~IsNaN(cycle.sensor_data[k])

\* C13 witness: with every sensor initialized the Trx read failed, and the
\* cycle recorded NaN for Trx and values for Ref, the eyespy board, the
\* temperature and CO2
C13Witness ==
    /\ \A c \in Components : initialized[c]
    /\ cycle.pc = "returned"
    /\ cycle.failing = {"Trx"}
    /\ cycle.led_ok
    /\ IsNaN(cycle.sensor_data["od_trx"])
    /\ cycle.sensor_data["od_ref"] = Flt(3)
    /\ cycle.sensor_data["eyespy_eyespy1_voltage"] = Flt(3)
    /\ cycle.sensor_data["temperature"] = Flt(27)
    /\ cycle.sensor_data["co2"] = Flt(30)
    /\ IsNaN(cycle.row["OD_Trx_V"])
    /\ cycle.row["OD_Ref_V"] = Flt(3)

\* C14 as stated: the key set of the row handed to the CSV writer equals the
\* writer's header: no key outside the header, and a value for time,
\* elapsed_time and the label of every sensor enabled at construction.
C14RowMatchesHeader ==
    cycle.pc = "returned" => DOMAIN cycle.row = fieldnames

(***************************************************************************)
(* Properties of the converse-name resolution.                             *)
(***************************************************************************)
\* name without its last Len(suffix) characters
WithoutSuffix(name, suffix) == SubSeq(name, 1, Len(name) - Len(suffix))

\* C21: the converse resolution of balanced_flow is symmetric: inflow and
\* outflow resolve to each other, a name ending in _in resolves to the same
\* base with _out, a name ending in _out to the same base with _in, and the
\* converse of the converse is the original pump name.
C21ConverseSymmetric ==
    /\ converse.pc \in {"resolved", "back"} =>
          /\ (converse.pump_name = Inflow
                 => converse.converse_name = <<Outflow>>)
          /\ (converse.pump_name = Outflow
                 => converse.converse_name = <<Inflow>>)
          /\ (EndsWith(converse.pump_name, SufIn)
                 => converse.converse_name =
                       <<WithoutSuffix(converse.pump_name, SufIn) \o SufOut>>)
          /\ (EndsWith(converse.pump_name, SufOut)
                 => converse.converse_name =
                       <<WithoutSuffix(converse.pump_name, SufOut) \o SufIn>>)
    /\ converse.pc = "back" => converse.back = <<converse.pump_name>>

(***************************************************************************)
(* Properties of the ring light.                                           *)
(***************************************************************************)
\* C22: while measure_od has the measurement LED switched on, the ring light
\* is off, in every interleaving with the other lanes, a ring_light_cycle
\* job among them.  (Stated for the measurements whose dodge left the ring
\* light off when the LED was switched on.)
C22RingOffWhileLedOn ==
    (od_call.pc = "led_on" /\ ~od_call.exit_ring.is_on) => ~ring_light.is_on

\* the step is a call of ring_light_cycle
RingCycleCalled == ring_cycle'.calls = ring_cycle.calls + 1

\* the time since the last switch, as the call measures it
SinceSwitch ==
    IF ring_cycle.last_switch_time = <<>> THEN 0
    ELSE ring_cycle'.current_time - ring_cycle.last_switch_time[1]

\* the call issued no ring-light command and left the cycle's state alone
RingCycleIdles ==
    /\ ring_cycle'.cmds = <<>>
    /\ ring_cycle'.state = ring_cycle.state
    /\ ring_cycle'.last_switch_time = ring_cycle.last_switch_time
    /\ ring_light' = ring_light

\* C23: ring_light_cycle turns the ring light on at its first call and then
\* alternates: it switches on->off only on a call where at least on_time has
\* elapsed since the last switch and off->on only on a call where at least
\* off_time has elapsed; on a call where that time has not elapsed it issues no
\* ring-light command and leaves its recorded state unchanged.
C23StrictAlternation ==
    [][(RingCycleCalled /\ initialized["ring_light"]) =>
          IF ring_cycle.state = "unset"
          THEN /\ ring_cycle'.cmds = <<RingCmd("set_ring_light", "ok")>>
                  \/ ring_cycle'.cmds = <<RingCmd("set_ring_light", "fail")>>
               /\ ring_cycle'.cmds[1].ok =>
                     (ring_light'.is_on /\ ring_light'.color = ring_cycle.color)
               /\ ring_cycle'.state = "on"
               /\ ring_cycle'.last_switch_time = <<ring_cycle'.current_time>>
          ELSE /\ (ring_cycle.state = "on" /\ ring_cycle'.state = "off")
                     => /\ SinceSwitch >= ring_cycle.on_time
                        /\ ring_cycle'.cmds[1].op = "turn_off_ring_light"
                        /\ ring_cycle'.cmds[1].ok => ~ring_light'.is_on
               /\ (ring_cycle.state = "off" /\ ring_cycle'.state = "on")
                     => (SinceSwitch >= ring_cycle.off_time /\ ring_light'.is_on)
               /\ ring_cycle'.state \in {"on", "off"}
               /\ ( \/ (ring_cycle.state = "on"
                          /\ SinceSwitch < ring_cycle.on_time)
                    \/ (ring_cycle.state = "off"
                          /\ SinceSwitch < ring_cycle.off_time) )
                     => RingCycleIdles
    ]_vars

\* the ring light was turned on at the first call, off at a later call and
\* is on again after a third
C23Witness ==
    /\ initialized["ring_light"]
    /\ ring_cycle.calls = 3
    /\ ring_cycle.state = "on"
    /\ ring_cycle.cmds = <<RingCmd("set_ring_light", "ok")>>
    /\ ring_cycle.last_switch_time = <<ring_cycle.current_time>>
    /\ ring_cycle.current_time >= ring_cycle.on_time + ring_cycle.off_time
    /\ ring_light.is_on

(***************************************************************************)
(* Properties of the component flags.                                      *)
(***************************************************************************)
\* C24: after construction no scheduled operation (get_temperature,
\* measure_od, measure_and_record_sensors, temperature_pid_controller,
\* ring_light_cycle, balanced_flow, change_pump) changes a component's
\* initialized flag, also when a read or an actuator command of the
\* operation fails.
C24FlagsFrozen == [][initialized' = initialized]_vars

\* get_temperature has failed on an initialized sensor and a pump command
\* of a later operation has raised
C24Witness ==
    /\ io_call.fn = "get_temperature"
    /\ io_call.driver_calls = 1
    /\ io_call.result = "NaN"
    /\ initialized["temp_sensor"]
    /\ initialized["pumps"]
    /\ \E k \in DOMAIN pump_log.cmds : ~pump_log.cmds[k].ok

(***************************************************************************)
(* Properties of the peltier direction.                                    *)
(***************************************************************************)
\* C25: set_peltier_power called with direction 'heat' commands
\* PeltierDriver.set with the forward flag the driver documents as heat
\* (True), and with 'cool' the flag it documents as cool (False); so a PID
\* step that decides 'heat' drives the peltier in the driver's heat direction.
C25DirectionMatchesDriver ==
    \A k \in DOMAIN pid_log :
        (pid_log[k].op = "set_peltier_power" /\ pid_log[k].ok)
            => peltier.forward = DriverForward(pid_log[k].direction)

(***************************************************************************)
(* Properties of the PID controller's time base.                           *)
(***************************************************************************)
\* C29: a NaN-skip step of temperature_pid_controller leaves the whole PID
\* state unchanged, _temp_last_time and _temp_last_derivative included, so
\* that the dt of the next valid step spans the time since the last valid
\* update.
C29NaNSkipKeepsState ==
    [][(IsPidStep /\ pid_call'.skipped)
          => /\ temp_integral' = temp_integral
             /\ temp_last_error' = temp_last_error
             /\ temp_last_derivative' = temp_last_derivative
             /\ temp_last_time' = temp_last_time]_vars

(***************************************************************************)
(* Properties of the pump pair after balanced_flow.                        *)
(***************************************************************************)
\* the latest call was balanced_flow(p, rate) with rate > 0 and no duration
\* on a configured pair, and it returned with no command or call failing
PairSetWithoutError ==
    /\ pump_call.fn = "balanced_flow"
    /\ pump_call.pc = "returned"
    /\ pump_call.path = "pair"
    /\ pump_call.duration = <<>>
    /\ FLt(Zero, pump_call.ml_per_sec)
    /\ pump_call.raised = "none"
    /\ \A k \in DOMAIN pump_log.cmds : pump_log.cmds[k].ok
    /\ \A k \in DOMAIN pump_log.calls : pump_log.calls[k].raised = "none"

\* C30: after balanced_flow(p, rate) with rate > 0 and no duration returns
\* without error on a configured pump pair, the primary and the converse
\* pump are in the same run state (both energized with non-zero velocity, or
\* both de-energized), whatever their steps_per_ml and directions.
C30PairInSameRunState ==
    PairSetWithoutError =>
        \/ /\ Running(pumps[pump_call.pump_name])
           /\ Running(pumps[ConverseName(pump_call.pump_name)[1]])
        \/ /\ ~pumps[pump_call.pump_name].energized
           /\ ~pumps[ConverseName(pump_call.pump_name)[1]].energized

(***************************************************************************)
(* Properties of the reactor's life cycle: run(), stop_all(), run() again  *)
(* and finish().                                                           *)
(***************************************************************************)
\* a lane of an earlier run(): in the life cycle a further run() is only
\* called after a stop_all(), so stop_all() was called after this lane started
EarlierLanes == { i \in DOMAIN lanes : i < Len(lanes) }

\* C26: every lane started by a run() terminates after a subsequent
\* stop_all(), also when run() is called again before the lane has reached
\* its next loop check: at that check the lane of the earlier run() leaves
\* its loop, it never enters the loop body again.
C26StoppedLaneTerminates ==
    [][\A i \in EarlierLanes :
          lanes[i].pc \in {"check", "sleeping"} => lanes'[i].pc # "call"]_vars

\* C27: after finish() has returned no lane commands an actuator or writes a
\* row: the peltier, the stirrer, the ring light and the pumps stay as
\* finish() left them, also for a lane that was about to call its action.
C27QuietAfterFinish ==
    [][out_file = "closed"
          => /\ peltier' = peltier
             /\ stirrer' = stirrer
             /\ ring_light' = ring_light
             /\ pumps' = pumps
             /\ cycle'.rows = cycle.rows]_vars

\* C28: in every sequence of temperature_pid_controller calls made by the
\* lanes with dt omitted, also across a stop_all() followed by a new run(),
\* the dt of every step that updates the integral and the derivative is
\* strictly positive.
C28DtPositive ==
    (pid_calls > 0 /\ ~pid_call.skipped) => FLt(Zero, pid_call.dt)

=============================================================================
